---- MODULE Spec2Model ----
(***************************************************************************)
(* next-at backend: static GTFS ingest (gtfs/sync.rs), the derived indexes *)
(* (gtfs/index.rs), the realtime feed monitor with its trip-update and     *)
(* alert handlers (gtfs/realtime), the sync_and_index driver and the       *)
(* maintenance loop (maintenance.rs) and the admin endpoints (main.rs), as *)
(* a state machine over the SQLite store.                                  *)
(*                                                                         *)
(* Option<T> and nullable columns are sets: {} is None/NULL, {x} is        *)
(* Some(x).  Instants are milliseconds counted from 2024-02-26T00:00:00Z   *)
(* (a Monday), so that they stay inside TLC's integers; a calendar date is *)
(* the number of days since that day and is stored, as in the feed, in its *)
(* YYYYMMDD form.                                                          *)
(***************************************************************************)
EXTENDS Integers, Sequences, FiniteSets, TLC

VARIABLES
    now,            \* wall clock, ms
    imports,        \* table import: rows [id, timestamp, file_last_modified]
    tables,         \* committed content of the nine schedule tables, by file name
    service,        \* table service: set of service_id
    stopIndex,      \* table stop_index
    tripRun,        \* table trip_run
    stopTimeIndex,  \* table stop_time_index
    maintenanceTime,\* table maintenance_time: rows [id, minute_of_day]
    vehicle,        \* table vehicle
    alerts,         \* tables alert, alert_informed_entity, alert_active_period
    rt,             \* monitor_firehose: its position and the locals of the handler
    feed,           \* monitor_firehose: the feed being applied
    admin,          \* the bulk task each admin request is running
    pc,             \* position of the main / maintenance task
    sync,           \* locals of the running Sync::do_sync and of its caller
    tx,             \* the open per-file transaction of import_csvs: {} or {rows}
    pre,            \* history: the schedule store when the current sync() was entered
    last,           \* history: the last operation performed and its inputs
    idx,            \* history: generation each index was last rebuilt for, and
                    \* the dates the last stop-time rebuild looped over
    hist            \* history: the feed applied last, the store before an entity

vars == <<now, imports, tables, service, stopIndex, tripRun, stopTimeIndex,
          maintenanceTime, vehicle, alerts, rt, feed, admin, pc, sync, tx, pre,
          last, idx, hist>>

----------------------------------------------------------------------------
(* Bounds of the model *)

MaxImports == 2      \* sync() attempts that reach the Import insert
MaxUpdates == 2      \* realtime entities handled in one behaviour
DownloadMs == 1000   \* time one archive download takes
MaxTicks == 2        \* clock steps between alerts and cleanups in one behaviour

----------------------------------------------------------------------------
(* Options *)

Some(x) == {x}
NoneV == {}
The(o) == CHOOSE x \in o : TRUE

Max(S) == CHOOSE x \in S : \A y \in S : y <= x
Min(S) == CHOOSE x \in S : \A y \in S : x <= y
Abs(x) == IF x < 0 THEN 0 - x ELSE x

----------------------------------------------------------------------------
(* Dates and times: gtfs/utils.rs *)

MsPerDay == 86400000
MsPerPeriod == 600000
NumPeriods == 144
MAX_DAYS == 60

\* chrono: NaiveDate::format("%Y%m%d") for the days of the model's calendar,
\* 2024-02-26 (day 0) .. 2024-05-31 (day 95); February 2024 has 29 days.
\* Timestamps in milliseconds exist for the first 24 of them only.
FormatDate(d) ==
    IF d <= 3 THEN 20240226 + d
    ELSE IF d <= 34 THEN 20240301 + (d - 4)
    ELSE IF d <= 64 THEN 20240401 + (d - 35)
    ELSE 20240501 + (d - 65)

Days == 0 .. 95

\* GtfsDateTimeParser::parse_date: {} when the text is not a date
parse_date(n) == {d \in Days : FormatDate(d) = n}

\* chrono: Datelike::weekday, 0 = Monday
Weekday(d) == d % 7

\* chrono_tz: the UTC offset of a zone name in the modelled weeks (no DST
\* change falls inside them); {} when the name does not parse
TzOffsetMs(tz) ==
    CASE tz = "UTC" -> Some(0)
      [] tz = "Pacific/Auckland" -> Some(13 * 3600000)
      [] OTHER -> NoneV

\* GtfsDateTimeParser::parse_time: time is <<HH, MM, SS>> with HH possibly
\* >= 24; the result is {} on an error, else {epoch millis}
parse_time(d, time, tz) ==
    LET raw_hour == time[1]
        minute == time[2]
        second == time[3]
        days_offset == raw_hour \div 24
        hour == raw_hour % 24
    IN  IF TzOffsetMs(tz) = NoneV \/ minute > 59 \/ second > 59
        THEN NoneV
        ELSE Some((d + days_offset) * MsPerDay
                  + (hour * 3600 + minute * 60 + second) * 1000
                  - The(TzOffsetMs(tz)))

----------------------------------------------------------------------------
(* The archive: gtfs/sync.rs *)

\* Order is important!
FILE_NAMES == <<"feed_info.txt", "agency.txt", "calendar.txt", "calendar_dates.txt",
                "routes.txt", "trips.txt", "shapes.txt", "stops.txt", "stop_times.txt">>

FileSet == {FILE_NAMES[i] : i \in 1 .. Len(FILE_NAMES)}

\* import_csvs: the natural key handed to insert_from_csv; feed_info has none
HasUniqueCols(f) == f # "feed_info.txt"

AllWeek == 0 .. 6

\* Bodies of the archives the server may publish.  A CSV row is [key, val]:
\* key holds the natural-key columns, val the others.
BaseCsv ==
    [ f \in FileSet |->
        CASE f = "feed_info.txt" ->
               {[key |-> 1, val |-> "2024.1"]}
          [] f = "agency.txt" ->
               {[key |-> "AT", val |-> [agency_timezone |-> Some("Pacific/Auckland")]]}
          [] f = "calendar.txt" ->
               {[key |-> "S1", val |-> [days |-> AllWeek \ {5, 6},
                                        start_date |-> 20240226, end_date |-> 20240301]],
                [key |-> "S2", val |-> [days |-> {5, 6},
                                        start_date |-> 20240226, end_date |-> 20240303]]}
          [] f = "calendar_dates.txt" ->
               {[key |-> <<"S1", 20240228>>, val |-> [exception_type |-> 2]],
                [key |-> <<"S2", 20240229>>, val |-> [exception_type |-> 1]]}
          [] f = "routes.txt" ->
               {[key |-> "R1", val |-> [agency_id |-> "AT"]]}
          [] f = "trips.txt" ->
               {[key |-> "T1", val |-> [service_id |-> "S1", route_id |-> "R1",
                                        direction_id |-> 0]],
                [key |-> "T2", val |-> [service_id |-> "S2", route_id |-> "R1",
                                        direction_id |-> 1]]}
          [] f = "shapes.txt" ->
               {[key |-> <<"SH1", 1>>, val |-> "p1"], [key |-> <<"SH1", 2>>, val |-> "p2"]}
          [] f = "stops.txt" ->
               {[key |-> "X", val |-> [stop_lat |-> Some(1), stop_lon |-> Some(1)]],
                [key |-> "Y", val |-> [stop_lat |-> Some(2), stop_lon |-> Some(2)]],
                [key |-> "Z", val |-> [stop_lat |-> Some(3), stop_lon |-> Some(3)]]}
          [] f = "stop_times.txt" ->
               {[key |-> <<"T1", 1>>, val |-> [stop_id |-> "X",
                   arrival_time |-> <<8, 0, 0>>, departure_time |-> <<8, 0, 0>>]],
                [key |-> <<"T1", 2>>, val |-> [stop_id |-> "Y",
                   arrival_time |-> <<8, 10, 0>>, departure_time |-> <<8, 11, 0>>]],
                [key |-> <<"T1", 3>>, val |-> [stop_id |-> "Z",
                   arrival_time |-> <<8, 20, 0>>, departure_time |-> <<8, 20, 0>>]],
                [key |-> <<"T2", 1>>, val |-> [stop_id |-> "Y",
                   arrival_time |-> <<23, 50, 0>>, departure_time |-> <<23, 50, 0>>]],
                [key |-> <<"T2", 2>>, val |-> [stop_id |-> "X",
                   arrival_time |-> <<24, 5, 0>>, departure_time |-> <<24, 5, 0>>]]} ]

\* A later edition of the same feed: trip T2 and stop Z are withdrawn, stop Y
\* has lost its coordinates, T1 is retimed, the feed_info row is replaced and
\* service S1 runs all week.
RevisedCsv ==
    [ BaseCsv EXCEPT
        !["feed_info.txt"] = {[key |-> 1, val |-> "2024.2"], [key |-> 2, val |-> "note"]},
        !["calendar.txt"] =
            {[key |-> "S1", val |-> [days |-> AllWeek,
                                     start_date |-> 20240226, end_date |-> 20240302]]},
        !["calendar_dates.txt"] =
            {[key |-> <<"S1", 20240229>>, val |-> [exception_type |-> 2]]},
        !["trips.txt"] =
            {[key |-> "T1", val |-> [service_id |-> "S1", route_id |-> "R1",
                                     direction_id |-> 0]]},
        !["stops.txt"] =
            {[key |-> "X", val |-> [stop_lat |-> Some(1), stop_lon |-> Some(1)]],
             [key |-> "Y", val |-> [stop_lat |-> NoneV, stop_lon |-> NoneV]]},
        !["stop_times.txt"] =
            {[key |-> <<"T1", 1>>, val |-> [stop_id |-> "X",
                arrival_time |-> <<9, 0, 0>>, departure_time |-> <<9, 0, 0>>]],
             [key |-> <<"T1", 2>>, val |-> [stop_id |-> "Y",
                arrival_time |-> <<9, 10, 0>>, departure_time |-> <<9, 10, 0>>]]} ]

\* A feed that renames every service: S3 replaces S1 and S2; the stop times
\* of trip T3 start at stop_sequence 2.
RenamedCsv ==
    [ BaseCsv EXCEPT
        !["calendar.txt"] =
            {[key |-> "S3", val |-> [days |-> AllWeek,
                                     start_date |-> 20240226, end_date |-> 20240301]]},
        !["calendar_dates.txt"] = {},
        !["trips.txt"] =
            {[key |-> "T1", val |-> [service_id |-> "S3", route_id |-> "R1",
                                     direction_id |-> 0]],
             [key |-> "T3", val |-> [service_id |-> "S3", route_id |-> "R1",
                                     direction_id |-> 1]]},
        !["stop_times.txt"] =
            {[key |-> <<"T1", 1>>, val |-> [stop_id |-> "X",
                arrival_time |-> <<8, 0, 0>>, departure_time |-> <<8, 0, 0>>]],
             [key |-> <<"T1", 2>>, val |-> [stop_id |-> "Y",
                arrival_time |-> <<8, 10, 0>>, departure_time |-> <<8, 11, 0>>]],
             [key |-> <<"T3", 2>>, val |-> [stop_id |-> "Y",
                arrival_time |-> <<10, 0, 0>>, departure_time |-> <<10, 0, 0>>]],
             [key |-> <<"T3", 3>>, val |-> [stop_id |-> "Z",
                arrival_time |-> <<10, 5, 0>>, departure_time |-> <<10, 5, 0>>]]} ]

\* The renamed feed with trip T3 moved to a service S4 of its own, which runs
\* one day longer than S3: on that day T3 is the first trip of the day.
ClippedCsv ==
    [ RenamedCsv EXCEPT
        !["calendar.txt"] =
            {[key |-> "S3", val |-> [days |-> AllWeek,
                                     start_date |-> 20240226, end_date |-> 20240301]],
             [key |-> "S4", val |-> [days |-> AllWeek,
                                     start_date |-> 20240226, end_date |-> 20240302]]},
        !["trips.txt"] =
            {[key |-> "T1", val |-> [service_id |-> "S3", route_id |-> "R1",
                                     direction_id |-> 0]],
             [key |-> "T3", val |-> [service_id |-> "S4", route_id |-> "R1",
                                     direction_id |-> 1]]} ]

\* The base feed announcing, months ahead, a day without service S1: the last
\* covered calendar date is 2024-05-20 while the trips stop in early March.
SeasonCsv ==
    [ BaseCsv EXCEPT
        !["calendar_dates.txt"] =
            @ \cup {[key |-> <<"S1", 20240520>>, val |-> [exception_type |-> 2]]} ]

\* The base feed with extra days of service: S2 also runs on Tuesday
\* 2024-03-05, after its calendar has ended, and trip T3 runs on Friday
\* 2024-03-01 only, by a service S5 that has no calendar row.
ExtrasCsv ==
    [ BaseCsv EXCEPT
        !["calendar_dates.txt"] =
            @ \cup {[key |-> <<"S2", 20240305>>, val |-> [exception_type |-> 1]],
                    [key |-> <<"S5", 20240301>>, val |-> [exception_type |-> 1]]},
        !["trips.txt"] =
            @ \cup {[key |-> "T3", val |-> [service_id |-> "S5", route_id |-> "R1",
                                            direction_id |-> 0]]},
        !["stop_times.txt"] =
            @ \cup {[key |-> <<"T3", 1>>, val |-> [stop_id |-> "Z",
                        arrival_time |-> <<7, 0, 0>>, departure_time |-> <<7, 0, 0>>]],
                    [key |-> <<"T3", 2>>, val |-> [stop_id |-> "X",
                        arrival_time |-> <<7, 30, 0>>, departure_time |-> <<7, 30, 0>>]]} ]

\* The bodies of the nine member files of a published archive
Archive(a) ==
    CASE a = "base" -> BaseCsv
      [] a = "season" -> SeasonCsv
      [] a = "extras" -> ExtrasCsv
      [] a = "revised" -> RevisedCsv
      [] a = "renamed" -> RenamedCsv
      [] a = "clipped" -> ClippedCsv

\* What the server may answer to the GET: the Last-Modified header ({} when
\* the response carries none) and the archive
ServerResponses ==
    { [last_modified |-> Some("Mon"), zip |-> "base"],
      [last_modified |-> Some("Tue"), zip |-> "revised"],
      [last_modified |-> Some("Wed"), zip |-> "renamed"],
      [last_modified |-> Some("Thu"), zip |-> "clipped"],
      [last_modified |-> NoneV, zip |-> "revised"] }

----------------------------------------------------------------------------
(* Static ingest, the statements of one file: gtfs/sync.rs insert_from_csv *)

\* Variants of the statements below that a slip in the code would produce
CleanupOld_keeps_previous(rows, import_id) ==
    {r \in rows : ~(r.import_id < import_id - 1)}
CleanupOld_omitted(rows, import_id) == rows
InsertFromCsv_binds_previous_id(rows, csv, import_id, f) ==
    rows \cup {[key |-> c.key, val |-> c.val, import_id |-> import_id - 1] : c \in csv}
RollbackFile_keeps_working(committed, working) == working
NotModified_never(if_modified_since, last_modified) == FALSE
NewImportRow_stores_header(id, timestamp, last_modified) ==
    [id |-> id, timestamp |-> timestamp \div 1000, file_last_modified |-> last_modified]

\* cleanup_sql: DELETE FROM <table> WHERE import_id < $import_id
CleanupOld(rows, import_id) == {r \in rows : ~(r.import_id < import_id)}

\* insert_sql: INSERT INTO <table> (cols.., import_id) SELECT cols.., $import_id
\* FROM <csv> [ON CONFLICT (unique_cols) DO UPDATE SET every column]
InsertFromCsv(rows, csv, import_id, f) ==
    LET fresh == {[key |-> c.key, val |-> c.val, import_id |-> import_id] : c \in csv}
    IN  IF HasUniqueCols(f)
        THEN {r \in rows : \A c \in csv : c.key # r.key} \cup fresh
        ELSE rows \cup fresh

\* execute_batch failed inside BEGIN .. COMMIT: the connection is dropped with
\* the transaction open, which rolls it back to the committed rows
RollbackFile(committed, working) == committed

\* import::ActiveModel { ..Default::default() }.insert(db): the columns take
\* their defaults, the timestamp (the store's clock, in seconds) among them
NewImportRow(id, timestamp, last_modified) ==
    [id |-> id, timestamp |-> timestamp \div 1000, file_last_modified |-> NoneV]

\* the id the store gives the next Import row
NextImportId == IF imports = {} THEN 1 ELSE Max({i.id : i \in imports}) + 1

\* ImportEx::get_last_import: Import::find().order_by_desc(Timestamp).one(db)
get_last_import == {i \in imports : \A j \in imports : j.timestamp <= i.timestamp}

\* get_gtfs_files_from_zip: if if_modified_since == last_modified { return Ok(None) }
NotModified(if_modified_since, last_modified) == if_modified_since = last_modified

\* do_sync: SELECT DISTINCT service_id FROM gtfs_calendar_dates UNION
\*          SELECT DISTINCT service_id FROM gtfs_calendar
all_services(tb) ==
    {r.key[1] : r \in tb["calendar_dates.txt"]} \cup {r.key : r \in tb["calendar.txt"]}

----------------------------------------------------------------------------
(* Stop-time index: gtfs/index.rs *)

Lookup(rows, k) == {r \in rows : r.key = k}

\* Variants of the definitions below that a slip in the code would produce
prepare_stop_times_for_date_ignores_removal(tb, svc, d) ==
    LET gtfs_date == FormatDate(d)
    IN  { st \in tb["stop_times.txt"] :
            \E t \in Lookup(tb["trips.txt"], st.key[1]) :
              /\ t.val.service_id \in svc
              /\ LET c == Lookup(tb["calendar.txt"], t.val.service_id)
                     cd == Lookup(tb["calendar_dates.txt"], <<t.val.service_id, gtfs_date>>)
                 IN  \/ \E cr \in c :
                          /\ cr.val.start_date <= gtfs_date
                          /\ cr.val.end_date >= gtfs_date
                          /\ Weekday(d) \in cr.val.days
                     \/ \E x \in cd : x.val.exception_type = 1 }
TripRunKeyTaken_never(runs, trip_id, start_timestamp) == FALSE
TripRunKeyTaken_scheduled_only(runs, trip_id, start_timestamp) ==
    \E r \in runs : /\ r.trip_id = trip_id /\ r.start_timestamp = start_timestamp
                    /\ r.schedule_relationship # 3

\* the query with the calendar row required (an inner join to gtfs_calendar)
prepare_stop_times_for_date_needs_calendar(tb, svc, d) ==
    LET gtfs_date == FormatDate(d)
    IN  { st \in tb["stop_times.txt"] :
            \E t \in Lookup(tb["trips.txt"], st.key[1]) :
              /\ t.val.service_id \in svc
              /\ LET c == Lookup(tb["calendar.txt"], t.val.service_id)
                     cd == Lookup(tb["calendar_dates.txt"], <<t.val.service_id, gtfs_date>>)
                 IN  \E cr \in c :
                        \/ /\ cr.val.start_date <= gtfs_date
                           /\ cr.val.end_date >= gtfs_date
                           /\ Weekday(d) \in cr.val.days
                           /\ \/ cd = {}
                              \/ \E x \in cd : x.val.exception_type # 2
                        \/ \E x \in cd : x.val.exception_type = 1 }

\* prepare_stop_times_for_date: the stop times joined (LEFT JOIN) to their
\* trip, the trip's service row, that service's calendar row and its
\* calendar_dates row for the date, filtered by the any![..] condition
prepare_stop_times_for_date(tb, svc, d) ==
    LET gtfs_date == FormatDate(d)
    IN  { st \in tb["stop_times.txt"] :
            \E t \in Lookup(tb["trips.txt"], st.key[1]) :
              /\ t.val.service_id \in svc
              /\ LET c == Lookup(tb["calendar.txt"], t.val.service_id)
                     cd == Lookup(tb["calendar_dates.txt"], <<t.val.service_id, gtfs_date>>)
                 IN  \/ \E cr \in c :
                          /\ cr.val.start_date <= gtfs_date
                          /\ cr.val.end_date >= gtfs_date
                          /\ Weekday(d) \in cr.val.days
                          /\ \/ cd = {}
                             \/ \E x \in cd : x.val.exception_type # 2
                     \/ \E x \in cd : x.val.exception_type = 1 }

\* prepare_last_calendar_date: ORDER BY date DESC LIMIT 1 over
\* calendar_dates.date UNION ALL calendar.end_date; {} when there is no row
prepare_last_calendar_date(tb) ==
    LET dates == {r.key[2] : r \in tb["calendar_dates.txt"]}
                 \cup {r.val.end_date : r \in tb["calendar.txt"]}
    IN  IF dates = {} THEN NoneV ELSE Some(Max(dates))

\* the collation of trip_id under ORDER BY
TripIdOrder == <<"T1", "T2", "T3">>
TripRank(t) == CHOOSE i \in 1 .. Len(TripIdOrder) : TripIdOrder[i] = t

\* .order_by_asc(TripId).order_by_asc(StopSequence): the first row of a result
FirstRow(rows) ==
    CHOOSE r \in rows : \A q \in rows :
        \/ TripRank(r.key[1]) < TripRank(q.key[1])
        \/ r.key[1] = q.key[1] /\ r.key[2] <= q.key[2]

\* the columns of the trip, route and agency joined to a stop time
TripOf(tb, st) == The(Lookup(tb["trips.txt"], st.key[1]))
TimezoneOf(tb, t) ==
    LET r == Lookup(tb["routes.txt"], t.val.route_id)
    IN  IF r = {} THEN NoneV
        ELSE LET a == Lookup(tb["agency.txt"], The(r).val.agency_id)
             IN  IF a = {} THEN NoneV ELSE The(a).val.agency_timezone

\* the unique index of trip_run on (trip_id, start_timestamp), as the filter
\* of duplicate_trip_run and its OnConflict::columns name it
TripRunKeyTaken(runs, trip_id, start_timestamp) ==
    \E r \in runs : r.trip_id = trip_id /\ r.start_timestamp = start_timestamp

NextTripRunId(runs) == IF runs = {} THEN 1 ELSE Max({r.id : r \in runs}) + 1

\* do_build_stop_time_index, the body of `while let Some(r) = day_data.next()?`
\* for the rows of one date; acc is [err, runs, sti, cur, counts, dates]
RECURSIVE IndexDayRows(_, _, _, _)
IndexDayRows(tb, d, rows, acc) ==
    IF acc.err \/ rows = {} THEN acc
    ELSE
      LET st == FirstRow(rows)
          t == TripOf(tb, st)
          tz == TimezoneOf(tb, t)
          arr == IF tz = NoneV THEN NoneV ELSE parse_time(d, st.val.arrival_time, The(tz))
          dep == IF tz = NoneV THEN NoneV ELSE parse_time(d, st.val.departure_time, The(tz))
      IN  IF arr = NoneV \/ dep = NoneV
          THEN [acc EXCEPT !.err = TRUE]
          ELSE
            LET first == st.key[2] = 1
                clash == first /\ TripRunKeyTaken(acc.runs, st.key[1], The(dep))
                id == NextTripRunId(acc.runs)
                runs1 == IF first
                         THEN acc.runs \cup
                              {[id |-> id, trip_id |-> st.key[1],
                                route_id |-> t.val.route_id,
                                direction_id |-> t.val.direction_id,
                                start_date |-> FormatDate(d),
                                start_timestamp |-> The(dep),
                                vehicle_id |-> NoneV,
                                schedule_relationship |-> 0]}
                         ELSE acc.runs
                cur1 == IF first THEN Some(id) ELSE acc.cur
            IN  IF clash \/ cur1 = NoneV
                THEN [acc EXCEPT !.err = TRUE]
                ELSE
                  LET period == (The(arr) % MsPerDay) \div MsPerPeriod
                      row == [id |-> Cardinality(acc.sti) + 1,
                              stop_id |-> st.val.stop_id, stop_sequence |-> st.key[2],
                              trip_id |-> st.key[1], trip_run_id |-> The(cur1),
                              arrival_timestamp |-> The(arr),
                              departure_timestamp |-> Some(The(dep)),
                              updated_arrival_timestamp |-> NoneV]
                  IN  IndexDayRows(tb, d, rows \ {st},
                        [err |-> FALSE, runs |-> runs1, sti |-> acc.sti \cup {row},
                         cur |-> cur1,
                         counts |-> [acc.counts EXCEPT ![period] = @ + 1],
                         dates |-> acc.dates])

\* a loop that runs to the last covered date however far it is
RECURSIVE IndexDays_to_last_date(_, _, _, _, _, _)
IndexDays_to_last_date(tb, svc, date, last_date, day_count, acc) ==
    IF acc.err \/ ~(date <= last_date) THEN acc
    ELSE IndexDays_to_last_date(tb, svc, date + 1, last_date, day_count + 1,
                   IndexDayRows(tb, date, prepare_stop_times_for_date(tb, svc, date),
                                [acc EXCEPT !.cur = NoneV, !.dates = @ \cup {date}]))

\* do_build_stop_time_index, `while date <= last_date && day_count < MAX_DAYS`;
\* acc.dates (history) collects the dates the loop body ran for
RECURSIVE IndexDays(_, _, _, _, _, _)
IndexDays(tb, svc, date, last_date, day_count, acc) ==
    IF acc.err \/ ~(date <= last_date /\ day_count < MAX_DAYS) THEN acc
    ELSE IndexDays(tb, svc, date + 1, last_date, day_count + 1,
                   IndexDayRows(tb, date, prepare_stop_times_for_date(tb, svc, date),
                                [acc EXCEPT !.cur = NoneV, !.dates = @ \cup {date}]))

\* do_build_stop_time_index up to the choice of the maintenance period:
\* [err, runs, sti, counts, dates]; the old TripRun and StopTimeIndex rows are gone
\* from the first statement of the transaction
do_build_stop_time_index(tb, svc, clock) ==
    LET last_date_i == prepare_last_calendar_date(tb)
        last_date == IF last_date_i = NoneV THEN NoneV ELSE parse_date(The(last_date_i))
        start_date == (clock \div MsPerDay) - 1
        empty == [err |-> FALSE, runs |-> {}, sti |-> {}, cur |-> NoneV,
                  counts |-> [p \in 0 .. NumPeriods - 1 |-> 0], dates |-> {}]
    IN  IF last_date = NoneV THEN [empty EXCEPT !.err = TRUE]
        ELSE IndexDays(tb, svc, start_date, The(last_date), 0, empty)

\* Variants of the two definitions below that a slip in the code would produce
RollbackIndex_keeps_working(committed, working) == working
MinuteOfDay_stores_period(period) == period

\* `let tx = db.transaction()?` .. `?`: the transaction is rolled back on drop
\* if not committed, the DROP and CREATE of stop_time_index included; the
\* arguments are [tripRun, stopTimeIndex, maintenanceTime] as committed and as
\* the transaction has them when the error occurs
RollbackIndex(committed, working) == committed

\* .values_panic([1.into(), (min_period.0 * 10).into()])
MinuteOfDay(period) == period * 10

\* A HashMap iterates in an order fixed by its random hasher state; the model
\* draws the state from HashSeeds and iterates from that period on, wrapping:
\* the period met at the k-th step of the iteration
HashSeeds == {0, 57, 114}
IterationOrder(seed, k) == (seed + k) % NumPeriods

\* the first period from the k-th step of the iteration on whose count is least
RECURSIVE FirstInIteration(_, _, _, _)
FirstInIteration(counts, seed, least, k) ==
    IF counts[IterationOrder(seed, k)] = least THEN IterationOrder(seed, k)
    ELSE FirstInIteration(counts, seed, least, k + 1)

\* a choice that takes the first period of the iteration whatever its count
min_period_first_met(counts, seed) == IterationOrder(seed, 0)

\* period_counts.iter().min_by_key(|(_, &count)| count): the first period,
\* in iteration order, among those with the least count
min_period(counts, seed) ==
    FirstInIteration(counts, seed, Min({counts[p] : p \in DOMAIN counts}), 0)

\* do_build_stop_index: one row per stop; reading a NULL coordinate as f64
\* is an error that aborts the rebuild.  The box is kept symbolically.
do_build_stop_index(tb) ==
    IF \E s \in tb["stops.txt"] : s.val.stop_lat = NoneV \/ s.val.stop_lon = NoneV
    THEN [err |-> TRUE, rows |-> {}]
    ELSE [err |-> FALSE,
          rows |-> {[stop_id |-> s.key, lat |-> The(s.val.stop_lat),
                     lon |-> The(s.val.stop_lon)] : s \in tb["stops.txt"]}]

----------------------------------------------------------------------------
(* The realtime feed: gtfs/realtime/mod.rs *)

\* the instant 1970-01-01T00:00:00Z in seconds from the model's day 0
UnixEpoch == 0 - 1708905600

\* a time of the feed, POSIX seconds, s seconds after the model's day 0
PosixSeconds(s) == s - UnixEpoch

\* The columns timestamp, start_timestamp and end_timestamp hold i64 numbers
\* that cleanup_alerts compares with Utc::now().timestamp_millis(), ms since
\* 1970.  The clock of the model counts ms from its day 0, which is
\* 1,708,905,600,000 ms after 1970; ClockOriginMs stands for that number,
\* which is beyond TLC's integers.  A number the feed supplies (at most a
\* POSIX time in seconds, about 1.7 * 10^9) is below ClockOriginMs, as it is
\* below the true origin, so it lies before every value of the clock.
ClockOriginMs == 2000000000
FromUnixMs(raw) == raw - ClockOriginMs

\* FeedHeader.timestamp, Option<DateTime<Utc>>, in seconds: the header
\* timestamps of the feeds the server may answer with
FeedHeaders == {NoneV, Some(300), Some(331)}

\* Option<T>: PartialOrd, None is less than every Some
OptionLe(a, b) ==
    IF a = NoneV THEN TRUE ELSE IF b = NoneV THEN FALSE ELSE The(a) <= The(b)

----------------------------------------------------------------------------
(* Realtime trip updates: gtfs/realtime/utils.rs and trip_update.rs *)

\* trip_descriptor::ScheduleRelationship as i32
Scheduled == 0
Added == 1
Unscheduled == 2
Canceled == 3
Replacement == 5
Duplicated == 6
Deleted == 7

\* Entities of the feed.  A TripDescriptor, a StopTimeEvent and a
\* StopTimeUpdate with the fields the handler reads; the events of the
\* modelled feeds carry `delay`.
TripDescriptor(trip_id, start_date, start_time, sr) ==
    [trip_id |-> trip_id, route_id |-> NoneV, direction_id |-> NoneV,
     start_date |-> start_date, start_time |-> start_time,
     schedule_relationship |-> sr]
StopTimeEvent(delay) == [delay |-> Some(delay), time |-> NoneV]
StopTimeEventAt(delay, time) == [delay |-> delay, time |-> Some(time)]
StopTimeUpdate(stop_sequence, stop_id, arrival, departure) ==
    [stop_sequence |-> stop_sequence, stop_id |-> stop_id,
     arrival |-> arrival, departure |-> departure]
TripUpdate(trip, vehicle_id, stop_time_update) ==
    [trip |-> trip, vehicle |-> vehicle_id, stop_time_update |-> stop_time_update]

\* the trip updates a feed may carry
TripUpdates ==
    { TripUpdate(TripDescriptor(Some("T1"), NoneV, NoneV, Some(Scheduled)), NoneV,
          <<StopTimeUpdate(Some(2), NoneV, Some(StopTimeEvent(60)), NoneV)>>),
      TripUpdate(TripDescriptor(Some("T1"), Some(20240229), NoneV, Some(Scheduled)),
          Some("V1"),
          <<StopTimeUpdate(Some(2), NoneV, NoneV, Some(StopTimeEvent(30)))>>),
      TripUpdate(TripDescriptor(Some("T1"), NoneV, NoneV, Some(Scheduled)), NoneV,
          <<StopTimeUpdate(Some(2), NoneV, Some(StopTimeEvent(60)),
                           Some(StopTimeEvent(90))),
            StopTimeUpdate(Some(1), NoneV, NoneV, Some(StopTimeEvent(30)))>>),
      TripUpdate(TripDescriptor(Some("T1"), NoneV, NoneV, Some(Scheduled)), NoneV,
          <<StopTimeUpdate(NoneV, Some("Y"), Some(StopTimeEvent(0 - 30)), NoneV)>>),
      TripUpdate(TripDescriptor(Some("T1"), NoneV, NoneV, Some(Canceled)), NoneV, <<>>),
      TripUpdate(TripDescriptor(Some("T1"), Some(20240229), Some(<<8, 0, 0>>),
                                Some(Duplicated)), NoneV,
          <<StopTimeUpdate(Some(1), NoneV, Some(StopTimeEvent(60)), NoneV)>>),
      TripUpdate(TripDescriptor(Some("T1"), Some(20240229), Some(<<9, 30, 0>>),
                                Some(Duplicated)), Some("V1"),
          <<StopTimeUpdate(Some(2), NoneV, Some(StopTimeEvent(60)), NoneV)>>),
      TripUpdate(TripDescriptor(Some("T9"), NoneV, NoneV, Some(Scheduled)), NoneV, <<>>),
      TripUpdate(TripDescriptor(Some("T1"), NoneV, NoneV, Some(Scheduled)), Some("V2"),
          <<StopTimeUpdate(Some(9), NoneV, Some(StopTimeEvent(60)), NoneV)>>),
      TripUpdate(TripDescriptor(Some("T1"), NoneV, NoneV, NoneV), Some("V1"),
          <<StopTimeUpdate(Some(1), NoneV, Some(StopTimeEvent(60)), NoneV)>>),
      TripUpdate(TripDescriptor(Some("T2"), Some(20240302), NoneV, Some(Scheduled)), NoneV,
          <<StopTimeUpdate(Some(1), NoneV, Some(StopTimeEvent(120)),
                           Some(StopTimeEvent(120)))>>),
      TripUpdate(TripDescriptor(Some("T1"), NoneV, NoneV, Some(Scheduled)), NoneV,
          <<StopTimeUpdate(NoneV, Some("Y"), Some(StopTimeEvent(60)), NoneV),
            StopTimeUpdate(Some(1), NoneV, Some(StopTimeEvent(30)), NoneV)>>),
      TripUpdate(TripDescriptor(Some("T1"), NoneV, NoneV, Some(Scheduled)), NoneV,
          <<StopTimeUpdate(Some(1), NoneV,
                           Some(StopTimeEventAt(Some(45), PosixSeconds(3 * 86400))), NoneV),
            StopTimeUpdate(Some(2), NoneV,
                           Some(StopTimeEventAt(NoneV, PosixSeconds(3 * 86400 + 60))),
                           NoneV)>>),
      TripUpdate(TripDescriptor(Some("T1"), NoneV, NoneV, Some(Added)), Some("V1"),
          <<StopTimeUpdate(Some(1), NoneV, Some(StopTimeEvent(60)), NoneV)>>),
      TripUpdate(TripDescriptor(Some("T1"), NoneV, NoneV, Some(Unscheduled)), NoneV, <<>>),
      TripUpdate(TripDescriptor(Some("T1"), NoneV, NoneV, Some(Replacement)), Some("V2"),
          <<>>) }

\* the agency rows linked to a route (routes JOIN agency)
AgencyOfRoute(tb, route_id) ==
    {a \in tb["agency.txt"] :
        \E r \in Lookup(tb["routes.txt"], route_id) : r.val.agency_id = a.key}

\* find_trip_run: [err, found]; found holds the rows the ordered query may
\* return first (more than one when distances tie)
find_trip_run(tb, runs, clock, td) ==
    LET trip == IF td.trip_id = NoneV THEN {}
                ELSE Lookup(tb["trips.txt"], The(td.trip_id))
        route_id == IF td.route_id # NoneV THEN td.route_id
                    ELSE {t.val.route_id : t \in trip}
        failed(e) == [err |-> e, found |-> {}]
    IN  IF route_id = NoneV THEN failed("InvalidData")
        ELSE IF AgencyOfRoute(tb, The(route_id)) = {} THEN failed("NotFound")
        ELSE
          LET timezone == The(AgencyOfRoute(tb, The(route_id))).val.agency_timezone
          IN  IF timezone = NoneV THEN failed("Db")
              ELSE IF TzOffsetMs(The(timezone)) = NoneV THEN failed("InvalidData")
              ELSE
                LET off == The(TzOffsetMs(The(timezone)))
                    local == clock + off
                    date == IF td.start_date = NoneV THEN Some(local \div MsPerDay)
                            ELSE parse_date(The(td.start_date))
                IN  IF date = NoneV THEN failed("InvalidData")
                    ELSE
                      LET at_date == The(date) * MsPerDay + (local % MsPerDay) - off
                          trip_time ==
                              IF td.start_time = NoneV THEN Some(at_date)
                              ELSE parse_time(The(date), The(td.start_time), The(timezone))
                          matching ==
                              {r \in runs :
                                 /\ td.trip_id # NoneV => r.trip_id = The(td.trip_id)
                                 /\ td.route_id # NoneV => r.route_id = The(td.route_id)
                                 /\ td.direction_id # NoneV
                                        => r.direction_id = The(td.direction_id)
                                 /\ td.start_date # NoneV
                                        => r.start_date = The(td.start_date)}
                      IN  IF trip_time = NoneV THEN failed("InvalidData")
                          ELSE IF matching = {} THEN failed("NotFound")
                          ELSE [err |-> "none",
                                found |-> {r \in matching : \A q \in matching :
                                    Abs(r.start_timestamp - The(trip_time))
                                      <= Abs(q.start_timestamp - The(trip_time))}]

\* the id the store gives the next StopTimeIndex row
NextStopTimeIndexId(sti) == IF sti = {} THEN 1 ELSE Max({r.id : r \in sti}) + 1

\* duplicate_trip_run: [err, runs, sti, id].  query_ok says whether the store
\* accepts the query for the source trip, which filters gtfs_trips on a
\* trip_run column: both answers are modelled.
duplicate_trip_run(tb, runs, sti, td, query_ok) ==
    LET failed(e, rs, ix) == [err |-> e, runs |-> rs, sti |-> ix, id |-> NoneV]
    IN  IF td.start_date = NoneV \/ td.start_time = NoneV \/ td.trip_id = NoneV
        THEN failed("InvalidData", runs, sti)
        ELSE IF ~query_ok THEN failed("Db", runs, sti)
        ELSE
          LET trip_id == The(td.trip_id)
              trip == Lookup(tb["trips.txt"], trip_id)
          IN  IF trip = {} THEN failed("NotFound", runs, sti)
              ELSE IF AgencyOfRoute(tb, The(trip).val.route_id) = {}
              THEN failed("NotFound", runs, sti)
              ELSE
                LET timezone == The(AgencyOfRoute(tb, The(trip).val.route_id))
                                    .val.agency_timezone
                    tz == IF timezone = NoneV THEN "UTC" ELSE The(timezone)
                    new_date == parse_date(The(td.start_date))
                    new_date_time ==
                        IF new_date = NoneV THEN NoneV
                        ELSE parse_time(The(new_date), The(td.start_time), tz)
                IN  IF new_date_time = NoneV THEN failed("InvalidData", runs, sti)
                    ELSE IF TripRunKeyTaken(runs, trip_id, The(new_date_time))
                    THEN [err |-> "none", runs |-> runs, sti |-> sti,
                          id |-> Some((CHOOSE r \in runs :
                                          /\ r.trip_id = trip_id
                                          /\ r.start_timestamp = The(new_date_time)).id)]
                    ELSE
                      LET id == NextTripRunId(runs)
                          runs1 == runs \cup
                              {[id |-> id, trip_id |-> trip_id,
                                route_id |-> The(trip).val.route_id,
                                direction_id |-> The(trip).val.direction_id,
                                start_date |-> The(td.start_date),
                                start_timestamp |-> The(new_date_time),
                                vehicle_id |-> NoneV,
                                schedule_relationship |-> Duplicated]}
                          stop_times == {st \in tb["stop_times.txt"] : st.key[1] = trip_id}
                          dep(st) == parse_time(The(new_date), st.val.departure_time, tz)
                          bad == {st.key[2] : st \in {q \in stop_times : dep(q) = NoneV}}
                          copied == IF bad = {} THEN stop_times
                                    ELSE {st \in stop_times : st.key[2] < Min(bad)}
                          first == CHOOSE st \in stop_times :
                                      \A q \in stop_times : st.key[2] <= q.key[2]
                          rows ==
                            {[id |-> NextStopTimeIndexId(sti) - 1
                                     + Cardinality({q \in copied : q.key[2] <= st.key[2]}),
                              stop_id |-> st.val.stop_id,
                              stop_sequence |-> st.key[2],
                              trip_id |-> trip_id,
                              trip_run_id |-> id,
                              arrival_timestamp |->
                                  The(new_date_time) + (The(dep(st)) - The(dep(first))),
                              departure_timestamp |-> NoneV,
                              updated_arrival_timestamp |-> NoneV] : st \in copied}
                      IN  IF stop_times = {} THEN failed("NotFound", runs1, sti)
                          ELSE IF bad # {} THEN failed("InvalidData", runs1, sti \cup rows)
                          ELSE [err |-> "none", runs |-> runs1, sti |-> sti \cup rows,
                                id |-> Some(id)]

\* .sorted_by_key(|u| u.stop_sequence): a stable sort, None before Some
SortKey(u) == IF u.stop_sequence = NoneV THEN 0 - 1 ELSE The(u.stop_sequence)
RECURSIVE InsertSorted(_, _)
InsertSorted(sorted, u) ==
    IF sorted = <<>> THEN <<u>>
    ELSE IF SortKey(u) < SortKey(Head(sorted)) THEN <<u>> \o sorted
    ELSE <<Head(sorted)>> \o InsertSorted(Tail(sorted), u)
RECURSIVE sorted_by_key(_)
sorted_by_key(updates) ==
    IF updates = <<>> THEN <<>>
    ELSE InsertSorted(sorted_by_key(SubSeq(updates, 1, Len(updates) - 1)),
                      updates[Len(updates)])

\* the stop time an update targets: stop_times.iter().find(..) over the rows
\* ordered by stop_sequence; {} when the update names neither or none matches
TargetStopTime(stop_times, update) ==
    LET named == IF update.stop_sequence # NoneV
                 THEN {st \in stop_times : st.stop_sequence = The(update.stop_sequence)}
                 ELSE IF update.stop_id # NoneV
                 THEN {st \in stop_times : st.stop_id = The(update.stop_id)}
                 ELSE {}
    IN  {st \in named : \A q \in named : st.stop_sequence <= q.stop_sequence}

\* `delay` is an i64.  The one the handler derives from an absolute time lies
\* beyond TLC's integers, so a delay is held as [epochs, seconds] and stands
\* for epochs * E + seconds, E = -UnixEpoch being the seconds from 1970 to the
\* model's day 0.  A delay the feed supplies has epochs = 0.
FeedDelay(d) == [epochs |-> 0, seconds |-> d]

\* t - stop_time.arrival_timestamp: t is a POSIX time in seconds, the column
\* is ms since 1970, that is 1000 * E + the model's value: the
\* difference is -1000 * E + (t - the model's value)
TimeMinusTimestamp(time, timestamp) ==
    [epochs |-> 0 - 1000, seconds |-> time - timestamp]

\* every instant before 1970-01-01T00:00:00Z
BeforeUnixEpoch == FromUnixMs(0) - 1

\* col(ArrivalTimestamp).add(delay * 1000), as a value of the model's clock.
\* With epochs < 0 the sum is more than 998,000 * E * 1000 ms before the
\* model's day 0 (seconds is below 2^31 < 2 * E): an instant long before 1970.
AddDelay(arrival_timestamp, delay) ==
    IF delay.epochs = 0 THEN arrival_timestamp + delay.seconds * 1000
    ELSE BeforeUnixEpoch

\* Variants of the two statements below that a slip in the code would produce
ArrivalDelayUpdate_skips_target(sti, trip_run_id, stop_sequence, delay) ==
    {IF r.trip_run_id = trip_run_id /\ r.stop_sequence > stop_sequence
     THEN [r EXCEPT !.updated_arrival_timestamp =
                        Some(AddDelay(r.arrival_timestamp, delay))]
     ELSE r : r \in sti}
DepartureDelayUpdate_includes_target(sti, trip_run_id, stop_sequence, delay) ==
    {IF r.trip_run_id = trip_run_id /\ r.stop_sequence >= stop_sequence
     THEN [r EXCEPT !.updated_arrival_timestamp =
                        Some(AddDelay(r.arrival_timestamp, delay))]
     ELSE r : r \in sti}

\* StopTimeIndex::update_many() SET updated_arrival_timestamp =
\* arrival_timestamp + delay * 1000 WHERE trip_run_id = .. AND stop_sequence >= ..
ArrivalDelayUpdate(sti, trip_run_id, stop_sequence, delay) ==
    {IF r.trip_run_id = trip_run_id /\ r.stop_sequence >= stop_sequence
     THEN [r EXCEPT !.updated_arrival_timestamp =
                        Some(AddDelay(r.arrival_timestamp, delay))]
     ELSE r : r \in sti}

\* the same statement for a departure delay: WHERE .. AND stop_sequence > ..
DepartureDelayUpdate(sti, trip_run_id, stop_sequence, delay) ==
    {IF r.trip_run_id = trip_run_id /\ r.stop_sequence > stop_sequence
     THEN [r EXCEPT !.updated_arrival_timestamp =
                        Some(AddDelay(r.arrival_timestamp, delay))]
     ELSE r : r \in sti}

\* event.delay.map(|d| d as i64): {} when the event or its delay is absent
DelayOf(event) == IF event = NoneV THEN NoneV ELSE The(event).delay

\* arrival.delay.map(..).or_else(|| arrival.time.map(|t| t - timestamp)), and
\* the same for a departure: the delay to apply, {} when the event is absent
\* or carries neither; timestamp is the column of the targeted stop time
DelayOrTime(event, timestamp) ==
    IF DelayOf(event) # NoneV THEN Some(FeedDelay(The(DelayOf(event))))
    ELSE IF event = NoneV THEN NoneV
    ELSE IF The(event).time = NoneV THEN NoneV
    ELSE Some(TimeMinusTimestamp(The(The(event).time), timestamp))

----------------------------------------------------------------------------
(* Alerts: gtfs/realtime/alert.rs *)

\* TimeRange { start: Option<u64>, end: Option<u64> }
TimeRange(start, end) == [start |-> start, end |-> end]

\* EntitySelector with the fields kept in the model
EntitySelector(route_id, stop_id, trip) ==
    [route_id |-> route_id, stop_id |-> stop_id, trip |-> trip]

\* Many<T>, #[serde(untagged)]: a zero-or-more field as it arrived, a single
\* object (One) or an array (Many)
One(val) == [shape |-> "One", items |-> <<val>>]
Many(vec) == [shape |-> "Many", items |-> vec]

\* impl From<Many<T>> for Vec<T>, which into_iter() goes through
IntoVec(from) == from.items

\* TranslatedString { translation: Option<Many<Translation>> } and
\* Translation { text, language: Option<String> }
Translation(text, language) == [text |-> text, language |-> language]
TranslatedString(translation) == [translation |-> translation]

\* TranslatedString::get
RECURSIVE FirstInLanguage(_, _)
FirstInLanguage(v, lang) ==
    IF v = <<>> THEN NoneV
    ELSE IF Head(v).language = Some(lang) THEN Some(Head(v).text)
    ELSE FirstInLanguage(Tail(v), lang)
TranslatedString_get(self, lang) ==
    IF self.translation = NoneV THEN NoneV
    ELSE IF The(self.translation).shape = "One"
    THEN Some(The(self.translation).items[1].text)
    ELSE FirstInLanguage(The(self.translation).items, lang)

\* alert.header_text.map(|t| t.get("en")).flatten(); description_text is read
\* the same way
HeaderText(header_text) ==
    IF header_text = NoneV THEN NoneV ELSE TranslatedString_get(The(header_text), "en")

\* FeedEntity { id, alert: Some(Alert { informed_entity, active_period, .. }) };
\* the two lists are given as the Vec that into_iter() yields (None is handled
\* as the empty list), header_text as it arrived
AlertEntity(id, informed_entity, active_period) ==
    [id |-> id, informed_entity |-> informed_entity, active_period |-> active_period,
     header_text |-> NoneV]
WithHeaderText(entity, translation) ==
    [entity EXCEPT !.header_text = Some(TranslatedString(Some(translation)))]

\* the alerts a feed may carry
AlertEntities ==
    { AlertEntity("A1", <<EntitySelector(Some("R1"), NoneV, NoneV)>>,
                  <<TimeRange(Some(100), NoneV)>>),
      WithHeaderText(AlertEntity("A1", <<>>, <<TimeRange(NoneV, NoneV)>>),
                     Many(<<Translation("Detour", NoneV)>>)),
      WithHeaderText(
          AlertEntity("A2",
                  <<EntitySelector(NoneV, NoneV,
                        Some(TripDescriptor(Some("T1"), NoneV, NoneV, NoneV)))>>,
                  <<TimeRange(Some(PosixSeconds(0)), Some(PosixSeconds(10 * 86400)))>>),
          Many(<<Translation("Umleitung", Some("de")),
                 Translation("Detour", Some("en"))>>)),
      AlertEntity("A3",
                  <<EntitySelector(NoneV, Some("X"), NoneV),
                    EntitySelector(NoneV, NoneV,
                        Some(TripDescriptor(Some("T9"), NoneV, NoneV, NoneV)))>>,
                  <<TimeRange(NoneV, NoneV)>>),
      WithHeaderText(AlertEntity("A4", <<>>, <<>>),
                     One(Translation("Detour", NoneV))) }

\* id: NotSet on an INTEGER PRIMARY KEY: one more than the largest id in use
NextRowId(rows) == IF rows = {} THEN 1 ELSE Max({r.id : r \in rows}) + 1

\* Variants of the definitions below that a slip in the code would produce
DefaultEnd_is_now(clock) == clock
cleanup_alerts_keeps_alerts(al, clock) ==
    [al EXCEPT !.period = {p \in al.period : ~(p.end_timestamp < clock)}]

\* active_period.start.unwrap_or(0)
DefaultStart == FromUnixMs(0)

\* active_period.end.unwrap_or_else(||
\*     Utc::now().add(chrono::Duration::days(1)).timestamp_millis() as u64)
DefaultEnd(clock) == clock + MsPerDay

\* the AlertActivePeriod rows process_alert inserts: start and end of the
\* feed go into the columns as they are
ActivePeriodRows(existing, id, active_period, clock) ==
    { [id |-> NextRowId(existing) + i - 1,
       alert_id |-> id,
       start_timestamp |-> IF active_period[i].start = NoneV THEN DefaultStart
                           ELSE FromUnixMs(The(active_period[i].start)),
       end_timestamp |-> IF active_period[i].end = NoneV THEN DefaultEnd(clock)
                         ELSE FromUnixMs(The(active_period[i].end))] :
      i \in 1 .. Len(active_period) }

\* The AlertActivePeriod rows after the Alert row of alert_id was deleted.
\* The schema of the alert tables is not among the sources; as the
\* specification describes the tables, AlertActivePeriod carries the external
\* alert_id as a plain column, and deleting an Alert row deletes no other row.
PeriodsAfterAlertDelete(period, alert_id) == period

\* process_alert, all its statements having succeeded; trip_run_ids[i] is the
\* trip run find_trip_run returned for the i-th informed entity, if it names
\* a trip.  The earlier AlertActivePeriod rows of the alert are not deleted.
process_alert(al, entity, clock, trip_run_ids) ==
    LET informed0 == {r \in al.informed : r.alert_id # Some(entity.id)}
        alert0 == {r \in al.alert : r.alert_id # Some(entity.id)}
    IN  [alert |-> alert0 \cup {[id |-> NextRowId(alert0),
                                 alert_id |-> Some(entity.id),
                                 header_text |-> HeaderText(entity.header_text),
                                 timestamp |-> Some(clock)]},
         informed |-> informed0 \cup
             { [id |-> NextRowId(informed0) + i - 1,
                alert_id |-> Some(entity.id),
                route_id |-> entity.informed_entity[i].route_id,
                stop_id |-> entity.informed_entity[i].stop_id,
                trip_run_id |-> trip_run_ids[i]] :
               i \in 1 .. Len(entity.informed_entity) },
         period |-> PeriodsAfterAlertDelete(al.period, entity.id) \cup
             ActivePeriodRows(al.period, entity.id, entity.active_period, clock)]

\* `let sp = tx.begin()` .. and an error leaves process_alert through `?`
\* before sp.commit(): sp is dropped and the statements since the savepoint
\* are undone
SavepointDropped(at_savepoint, working) == at_savepoint

\* cleanup_alerts at the instant clock: DELETE FROM alert_active_period WHERE
\* end_timestamp < clock; DELETE FROM alert WHERE alert_id NOT IN (SELECT
\* alert_id FROM alert_active_period)
cleanup_alerts(al, clock) ==
    LET period1 == {p \in al.period : ~(p.end_timestamp < clock)}
    IN  [al EXCEPT !.period = period1,
                   !.alert = {a \in al.alert :
                                 a.alert_id \in {Some(p.alert_id) : p \in period1}}]

----------------------------------------------------------------------------
(* State *)

SyncIdle ==
    [caller |-> "none", last_modified |-> NoneV, zip |-> "none", import_id |-> 0,
     k |-> 0, count |-> 0, result |-> "none", failed_at |-> 0]

\* what the operation that ran last did (history, not program state)
NoOp == [op |-> "none", result |-> "none", import_id |-> 0, last_modified |-> NoneV,
         failed_at |-> 0, stage |-> "none"]

RtIdle == [pc |-> "idle", n |-> 0, trip_run_id |-> NoneV, stop_times |-> {},
           updates |-> <<>>, target |-> NoneV]

Snapshot == [tables |-> tables, imports |-> imports, service |-> service]

\* the alert tables after the migrations
EmptyAlerts == [alert |-> {}, informed |-> {}, period |-> {}]

\* monitor_firehose before its first feed
FeedIdle == [timestamp |-> NoneV, left |-> 0]

\* the admin requests that may be in progress at once (actix serves requests
\* concurrently) and the state of one that runs nothing
Requests == {1, 2}
AdminIdle == [r \in Requests |-> "idle"]

\* what a realtime handler may write
RtStore == [tripRun |-> tripRun, stopTimeIndex |-> stopTimeIndex,
            vehicle |-> vehicle, alerts |-> alerts]

\* history of the serving process: the header timestamp of the feed committed
\* last; the entity being handled, the store when its handler was entered and
\* the number of handlers of the batch that returned Err; the clock steps
\* taken; the trip run a trip update resolved to; the alert entity that
\* process_alert stored last
NoHistory == [applied |-> NoneV, entity |-> "none", input |-> NoneV, run |-> NoneV,
              alert |-> NoneV,
              before |-> [tripRun |-> {}, stopTimeIndex |-> {}, vehicle |-> {},
                          alerts |-> EmptyAlerts],
              errors |-> 0, ticks |-> 0, wait |-> 0, error |-> "none"]

EmptyTables == [f \in FileSet |-> {}]

\* the clock at start: 2024-02-28T12:00:00Z
StartNow == 2 * MsPerDay + 12 * 3600000

\* the store after the migrations, before the first sync
InitStore ==
    /\ imports = {}
    /\ tables = EmptyTables
    /\ service = {}
    /\ stopIndex = {}
    /\ tripRun = {}
    /\ stopTimeIndex = {}
    /\ maintenanceTime = {}
    /\ vehicle = {}
    /\ alerts = EmptyAlerts

Init ==
    /\ InitStore
    /\ now = StartNow
    /\ pc = "boot"
    /\ sync = SyncIdle
    /\ rt = RtIdle
    /\ feed = FeedIdle
    /\ admin = AdminIdle
    /\ tx = NoneV
    /\ pre = Snapshot
    /\ last = NoOp
    /\ idx = [stop |-> 0, stop_time |-> 0, dates |-> {}]
    /\ hist = NoHistory

\* the generation of the last ingest that completed (0: none yet)
LatestIngest ==
    LET done == {i.id : i \in {j \in imports : j.file_last_modified # NoneV}}
    IN  IF done = {} THEN 0 ELSE Max(done)

ServingVars == <<alerts, feed, admin, hist>>
IndexVars == <<stopIndex, tripRun, stopTimeIndex, maintenanceTime, vehicle, rt, idx,
               ServingVars>>
StoreVars == <<imports, tables, service>>

----------------------------------------------------------------------------
(* Sync::do_sync, gtfs/sync.rs, called from sync_and_index *)

\* main (startup) or keep_maintained (once it has read the maintenance time
\* and slept) calls sync_and_index, which enters Sync::sync
SyncEnter ==
    /\ pc \in {"boot", "sleep"}
    /\ pc = "sleep" => maintenanceTime # {}
    /\ pc' = "sync_fetch"
    /\ sync' = [SyncIdle EXCEPT !.caller = IF pc = "boot" THEN "boot" ELSE "maint"]
    /\ pre' = Snapshot
    /\ UNCHANGED <<now, StoreVars, IndexVars, tx, last>>

\* reqwest::get(url).await?.error_for_status()? or the zip extraction fails
SyncFetchError ==
    /\ pc = "sync_fetch"
    /\ pc' = "sync_ret"
    /\ sync' = [sync EXCEPT !.result = "err"]
    /\ last' = [NoOp EXCEPT !.op = "sync", !.result = "fetch_err"]
    /\ UNCHANGED <<now, StoreVars, IndexVars, tx, pre>>

\* get_last_import, then get_gtfs_files_from_zip with the server answering
\* Last-Modified: last_modified and the archive zip
SyncFetch(last_modified, zip) ==
    /\ pc = "sync_fetch"
    /\ \E prev_last_modified \in
            IF imports = {} THEN {NoneV}
            ELSE {i.file_last_modified : i \in get_last_import} :
         IF NotModified(prev_last_modified, last_modified)
         THEN /\ pc' = "sync_ret"
              /\ sync' = [sync EXCEPT !.result = "ok", !.count = 0,
                                      !.last_modified = last_modified]
              /\ last' = [NoOp EXCEPT !.op = "sync", !.result = "no_change",
                                      !.last_modified = last_modified]
         ELSE /\ Cardinality(imports) < MaxImports
              /\ pc' = "sync_new_import"
              /\ sync' = [sync EXCEPT !.last_modified = last_modified, !.zip = zip]
              /\ last' = [NoOp EXCEPT !.op = "sync", !.result = "modified",
                                      !.last_modified = last_modified,
                                      !.stage = IF /\ last.op = "sync"
                                                   /\ last.result = "err"
                                                   /\ last.last_modified = last_modified
                                                THEN "retry" ELSE "first"]
    /\ UNCHANGED <<now, StoreVars, IndexVars, tx, pre>>

\* let new_import = import::ActiveModel { .. }.insert(self.db).await?: the
\* row's timestamp is the clock once the archive has been downloaded
SyncInsertImport ==
    /\ pc = "sync_new_import"
    /\ now' = now + DownloadMs
    /\ imports' = imports \cup {NewImportRow(NextImportId, now', sync.last_modified)}
    /\ sync' = [sync EXCEPT !.import_id = NextImportId, !.k = 1]
    /\ pc' = "file_cleanup"
    /\ UNCHANGED <<tables, service, IndexVars, tx, pre, last>>

CurrentFile == FILE_NAMES[sync.k]

\* the `?` that leaves import_csvs or do_sync with the error
SyncFailed(k) ==
    /\ pc' = "sync_ret"
    /\ sync' = [sync EXCEPT !.result = "err", !.failed_at = k]
    /\ last' = [op |-> "sync", result |-> "err", import_id |-> sync.import_id,
                last_modified |-> sync.last_modified, failed_at |-> k, stage |-> pc]

\* import_csvs: BEGIN; CREATE VIRTUAL TABLE temp.<csv> ..; and the cleanup
\* statement of the batch
FileCleanup ==
    /\ pc = "file_cleanup"
    /\ tx' = Some(CleanupOld(tables[CurrentFile], sync.import_id))
    /\ pc' = "file_insert"
    /\ UNCHANGED <<now, StoreVars, IndexVars, sync, pre, last>>

\* the insert statement of the batch; db.changes() is its row count
FileInsert ==
    /\ pc = "file_insert"
    /\ LET csv == Archive(sync.zip)[CurrentFile]
       IN  /\ tx' = Some(InsertFromCsv(The(tx), csv, sync.import_id, CurrentFile))
           /\ sync' = [sync EXCEPT !.count = @ + Cardinality(csv)]
    /\ pc' = "file_commit"
    /\ UNCHANGED <<now, StoreVars, IndexVars, pre, last>>

\* COMMIT, then the next file or the end of the loop
FileCommit ==
    /\ pc = "file_commit"
    /\ tables' = [tables EXCEPT ![CurrentFile] = The(tx)]
    /\ tx' = NoneV
    /\ sync' = [sync EXCEPT !.k = @ + 1]
    /\ pc' = IF sync.k = Len(FILE_NAMES) THEN "sync_service" ELSE "file_cleanup"
    /\ UNCHANGED <<now, imports, service, IndexVars, pre, last>>

\* db.execute_batch(&statement)? fails at a statement of the batch (the file
\* is missing or malformed, the store is busy or out of space)
FileError ==
    /\ pc \in {"file_cleanup", "file_insert", "file_commit"}
    /\ tables' = [tables EXCEPT ![CurrentFile] =
                    RollbackFile(tables[CurrentFile],
                                 IF tx = NoneV THEN tables[CurrentFile] ELSE The(tx))]
    /\ tx' = NoneV
    /\ SyncFailed(sync.k)
    /\ UNCHANGED <<now, imports, service, IndexVars, pre>>

\* service_id is the key of table service: inserting an id that is already
\* there fails
ServiceKeyConflict(existing, inserted) == existing \cap inserted # {}

\* Query::insert().into_table(Service).select_from(all_services): a plain
\* INSERT, which fails on a key conflict
SyncService ==
    /\ pc = "sync_service"
    /\ IF ~ServiceKeyConflict(service, all_services(tables))
       THEN /\ service' = service \cup all_services(tables)
            /\ pc' = "sync_save"
            /\ UNCHANGED <<sync, last>>
       ELSE /\ service' = service
            /\ SyncFailed(0)
    /\ UNCHANGED <<now, imports, tables, IndexVars, tx, pre>>

\* this_import.file_last_modified = Set(last_modified); save; Ok(record_count)
SyncSave ==
    /\ pc = "sync_save"
    /\ imports' = {IF i.id = sync.import_id
                   THEN [i EXCEPT !.file_last_modified = sync.last_modified]
                   ELSE i : i \in imports}
    /\ sync' = [sync EXCEPT !.result = "ok"]
    /\ last' = [op |-> "sync", result |-> "ok", import_id |-> sync.import_id,
                last_modified |-> sync.last_modified, failed_at |-> 0, stage |-> pc]
    /\ pc' = "sync_ret"
    /\ UNCHANGED <<now, tables, service, IndexVars, tx, pre>>

----------------------------------------------------------------------------
(* sync_and_index, maintenance.rs, and its callers *)

\* a keep_maintained that goes back to sleep after sync_and_index
AfterIndex_skips_cleanup == "sleep"

\* where the caller of sync_and_index goes on after Ok(())
AfterIndex == IF sync.caller = "boot" THEN "sleep" ELSE "cleanup"

\* if Sync::sync(db).await? > 0 { .. }: an error leaves main or
\* keep_maintained through `?`, and the process exits
SyncReturn ==
    /\ pc = "sync_ret"
    /\ pc' = IF sync.result = "err" THEN "down"
             ELSE IF sync.count > 0 THEN "stop_index"
             ELSE AfterIndex
    /\ UNCHANGED <<now, StoreVars, IndexVars, sync, tx, pre, last>>

\* the rows of the three tables the stop-time index rebuild writes
IndexTables ==
    [tripRun |-> tripRun, stopTimeIndex |-> stopTimeIndex,
     maintenanceTime |-> maintenanceTime]

\* INSERT INTO maintenance_time (id, minute_of_day) VALUES (1, ..)
\* ON CONFLICT (id) DO UPDATE SET minute_of_day
UpsertMaintenanceTime(rows, minute) ==
    {r \in rows : r.id # 1} \cup {[id |-> 1, minute_of_day |-> minute]}

\* build_stop_time_index on the store as it is: the three tables after it,
\* committed when r finished and rolled back when it failed
StopTimeIndexRebuilt(r, seed) ==
    IF r.err
    THEN RollbackIndex(IndexTables,
                       [tripRun |-> r.runs, stopTimeIndex |-> r.sti,
                        maintenanceTime |-> maintenanceTime])
    ELSE [tripRun |-> r.runs, stopTimeIndex |-> r.sti,
          maintenanceTime |->
              UpsertMaintenanceTime(maintenanceTime,
                                    MinuteOfDay(min_period(r.counts, seed)))]

\* index::build_stop_index().await?: an error leaves sync_and_index and its
\* caller through `?`
BuildStopIndex ==
    /\ pc = "stop_index"
    /\ LET r == do_build_stop_index(tables)
       IN  IF r.err
           THEN /\ pc' = "down"
                /\ sync' = [sync EXCEPT !.result = "index_err"]
                /\ UNCHANGED <<stopIndex, idx>>
           ELSE /\ pc' = "stop_time_index"
                /\ stopIndex' = r.rows
                /\ idx' = [idx EXCEPT !.stop = LatestIngest]
                /\ sync' = sync
    /\ UNCHANGED <<now, StoreVars, tripRun, stopTimeIndex, maintenanceTime, vehicle,
                   rt, ServingVars, tx, pre, last>>

\* index::build_stop_time_index().await?
BuildStopTimeIndex ==
    /\ pc = "stop_time_index"
    /\ LET r == do_build_stop_time_index(tables, service, now)
       IN  /\ \E seed \in HashSeeds :
                LET after == StopTimeIndexRebuilt(r, seed)
                IN  /\ tripRun' = after.tripRun
                    /\ stopTimeIndex' = after.stopTimeIndex
                    /\ maintenanceTime' = after.maintenanceTime
           /\ IF r.err
              THEN /\ pc' = "down"
                   /\ sync' = [sync EXCEPT !.result = "index_err"]
                   /\ idx' = idx
              ELSE /\ pc' = AfterIndex
                   /\ sync' = sync
                   /\ idx' = [idx EXCEPT !.stop_time = LatestIngest,
                                        !.dates = r.dates]
    /\ UNCHANGED <<now, StoreVars, stopIndex, vehicle, rt, ServingVars, tx, pre, last>>

\* keep_maintained: realtime::cleanup in its own transaction, then the loop
\* sleeps until the next window.  The store admits one writer: the cleanup
\* runs between two batches of monitor_firehose
MaintenanceCleanup ==
    /\ pc = "cleanup"
    /\ rt.pc = "idle"
    /\ alerts' = cleanup_alerts(alerts, now)
    /\ last' = [NoOp EXCEPT !.op = "cleanup"]
    /\ pc' = "sleep"
    /\ UNCHANGED <<now, StoreVars, stopIndex, tripRun, stopTimeIndex, maintenanceTime,
                   vehicle, rt, idx, feed, admin, hist, sync, tx, pre>>

\* keep_maintained: MaintenanceTime::find_by_id(1) .. .expect("No maintenance
\* time. Not synced and indexed?") panics, and the process exits
MaintenancePanic ==
    /\ pc = "sleep"
    /\ maintenanceTime = {}
    /\ pc' = "down"
    /\ UNCHANGED <<now, StoreVars, IndexVars, sync, tx, pre, last>>

\* the process stops at any point (killed, power loss); an open transaction
\* is rolled back
Crash ==
    /\ pc \notin {"down", "sync_ret"}
    /\ pc' = "down"
    /\ tx' = NoneV
    /\ UNCHANGED <<now, StoreVars, IndexVars, sync, pre, last>>

\* the process is started again: main
Restart ==
    /\ pc = "down"
    /\ pc' = "boot"
    /\ sync' = SyncIdle
    /\ UNCHANGED <<now, StoreVars, IndexVars, tx, pre, last>>

Next ==
    \/ SyncEnter
    \/ SyncFetchError
    \/ \E r \in ServerResponses : SyncFetch(r.last_modified, r.zip)
    \/ SyncInsertImport
    \/ FileCleanup
    \/ FileInsert
    \/ FileCommit
    \/ FileError
    \/ SyncService
    \/ SyncSave
    \/ SyncReturn
    \/ BuildStopIndex
    \/ BuildStopTimeIndex
    \/ MaintenanceCleanup
    \/ MaintenancePanic
    \/ Crash
    \/ Restart

Spec == Init /\ [][Next]_vars

----------------------------------------------------------------------------
(* Static ingest: properties *)

FileIndexes == 1 .. Len(FILE_NAMES)
ImportIds == {i.id : i \in imports}

\* the sync that has just returned ingested an archive and succeeded
SyncSucceeded == pc = "sync_ret" /\ last.op = "sync" /\ last.result = "ok"

\* the sync that has just returned failed in the transaction of file k
SyncFailedAtFile(k) ==
    pc = "sync_ret" /\ last.op = "sync" /\ last.result = "err" /\ last.failed_at = k

\* C1: when a sync() that ingested an archive at generation G returns
\* successfully, every row of each of the nine schedule tables has
\* import_id = G, and G is the greatest generation of the store: no row of an
\* older generation is left, whichever earlier sync wrote it.
C1_AllRowsAtNewGeneration ==
    SyncSucceeded =>
        /\ last.import_id = Max(ImportIds)
        /\ \A f \in FileSet : \A r \in tables[f] : r.import_id = last.import_id

\* C1 witness: a successful sync has returned, and when it started the store
\* held rows of an older generation whose own sync had failed
C1_Witness ==
    /\ SyncSucceeded
    /\ \E f \in FileSet : \E r \in pre.tables[f] : r.import_id < last.import_id
    /\ \E i \in imports : i.id < last.import_id /\ i.file_last_modified = NoneV
    /\ \E f \in FileSet : tables[f] # {}

\* the step in which do_sync gets the server's answer (not a failed request)
FetchAnswered ==
    /\ pc = "sync_fetch"
    /\ pc' \in {"sync_ret", "sync_new_import"}
    /\ last'.result \in {"no_change", "modified"}

\* C2: when the Last-Modified value the server answers equals the
\* file_last_modified of the most recent Import row, sync() returns 0 and the
\* step changes no Import row, no schedule table, not the Service table and
\* no index table.
C2_NoChangeIsNoOp ==
    [][ (/\ FetchAnswered
         /\ imports # {}
         /\ \E i \in get_last_import : i.file_last_modified = last'.last_modified)
        => /\ pc' = "sync_ret"
           /\ sync'.result = "ok"
           /\ sync'.count = 0
           /\ UNCHANGED <<imports, tables, service, stopIndex, tripRun,
                          stopTimeIndex, maintenanceTime, vehicle>> ]_vars

\* C2 witness: a sync has returned on the no-change path against a store whose
\* most recent Import row holds the header value the server answered
C2_Witness ==
    /\ pc = "sync_ret"
    /\ last.result = "no_change"
    /\ last.last_modified # NoneV
    /\ \E i \in get_last_import : i.file_last_modified = last.last_modified
    /\ \E f \in FileSet : tables[f] # {}

C4_OneGenerationPerTable ==
    \A f \in FileSet : \A r1 \in tables[f], r2 \in tables[f] :
        r1.import_id = r2.import_id

\* C4 witness: a sync is between two files: a table it has committed holds
\* the new generation while a table still to come holds rows of the old one
C4_Witness ==
    /\ pc \in {"file_cleanup", "file_insert", "file_commit"}
    /\ \E f \in FileSet, g \in FileSet :
         /\ \E r \in tables[f] : r.import_id = sync.import_id
         /\ \E r \in tables[g] : r.import_id < sync.import_id
    /\ tx # NoneV

\* C5: when the transaction of the k-th file fails in a sync at generation G,
\* the tables of file k and of every later file are as they were when the sync
\* started, the tables of the files before k hold only generation G, sync()
\* returns the error, and Import row G is in the store without
\* file_last_modified.
C5_FailedFileRolledBack ==
    \A k \in FileIndexes :
        SyncFailedAtFile(k) =>
            /\ \A j \in FileIndexes :
                  j >= k => tables[FILE_NAMES[j]] = pre.tables[FILE_NAMES[j]]
            /\ \A j \in FileIndexes :
                  j < k => \A r \in tables[FILE_NAMES[j]] : r.import_id = last.import_id
            /\ sync.result = "err"
            /\ \E i \in imports : i.id = last.import_id /\ i.file_last_modified = NoneV
            /\ \A i \in imports : i.id = last.import_id => i.file_last_modified = NoneV

\* C5 witness: the failure came at the COMMIT of a file that is neither the
\* first nor the last, whose table held rows and whose transaction had
\* replaced them
C5_Witness ==
    \E k \in FileIndexes :
        /\ SyncFailedAtFile(k)
        /\ 1 < k /\ k < Len(FILE_NAMES)
        /\ last.stage = "file_commit"
        /\ pre.tables[FILE_NAMES[k]] # {}
        /\ tables[FILE_NAMES[k - 1]] # pre.tables[FILE_NAMES[k - 1]]

\* C24: when the transaction of a file commits in a sync at generation G, the
\* table holds exactly one row per natural key of the CSV, with the CSV's
\* column values and import_id = G: rows of earlier generations are
\* overwritten when their key is in the CSV and removed when it is not.
C24_CommittedTableIsCsv ==
    [][ (pc = "file_commit" /\ sync'.k = sync.k + 1)
          => /\ tables'[CurrentFile] =
                   {[key |-> c.key, val |-> c.val, import_id |-> sync.import_id] :
                       c \in Archive(sync.zip)[CurrentFile]}
             /\ \A c \in Archive(sync.zip)[CurrentFile] :
                   Cardinality(Lookup(tables'[CurrentFile], c.key)) = 1 ]_vars

\* C24 witness: a sync has just committed a table that held, when the sync
\* started, a row whose key is in the CSV with other values and a row whose
\* key is not in the CSV; the table now holds the CSV's rows only
C24_Witness ==
    /\ pc = "file_cleanup"
    /\ sync.k > 1
    /\ LET f == FILE_NAMES[sync.k - 1]
           csv == Archive(sync.zip)[f]
       IN  /\ \E old \in pre.tables[f] : \E c \in csv :
                 c.key = old.key /\ c.val # old.val /\ old.import_id < sync.import_id
           /\ \E old \in pre.tables[f] : \A c \in csv : c.key # old.key
           /\ {r.key : r \in tables[f]} = {c.key : c \in csv}
           /\ \A r \in tables[f] : r.import_id = sync.import_id

\* C6: every ingest that changed data is followed by a completed rebuild of
\* StopIndex and StopTimeIndex, if need be by a later sync_and_index run: so
\* whenever a sync_and_index run has returned Ok, both indexes have been built
\* from the latest completed ingest.
C6_IndexesFollowIngest ==
    pc \in {"sleep", "cleanup"} =>
        idx.stop = LatestIngest /\ idx.stop_time = LatestIngest


----------------------------------------------------------------------------
(* sync_and_index: properties *)

\* C16: a stop-time index rebuild that does not complete (it fails, or the
\* process stops during it) leaves TripRun, StopTimeIndex and MaintenanceTime
\* exactly as they were before it started.
C16_FailedRebuildLeavesIndex ==
    [][ (pc = "stop_time_index" /\ pc' = "down")
            => UNCHANGED <<tripRun, stopTimeIndex, maintenanceTime>> ]_vars

\* C16 witness: the stop-time index rebuild of the latest ingest has failed
\* after it had replaced the trip runs in its transaction, and the index of the
\* earlier ingest is in place
C16_Witness ==
    /\ pc = "down"
    /\ sync.result = "index_err"
    /\ idx.stop = LatestIngest
    /\ idx.stop_time < LatestIngest
    /\ tripRun # {}
    /\ stopTimeIndex # {}
    /\ maintenanceTime # {}
    /\ LET r == do_build_stop_time_index(tables, service, now)
       IN  r.err /\ r.runs # {} /\ r.runs # tripRun

\* C25: after a successful stop-time index rebuild every StopTimeIndex row
\* references through trip_run_id a TripRun of the row's own trip (a trip whose
\* rows of a day do not begin with stop_sequence 1 aborts the rebuild, so no
\* row of it is ever indexed under another trip's run).
C25_IndexRowsReferenceOwnRun ==
    \A r \in stopTimeIndex :
        \E t \in tripRun : t.id = r.trip_run_id /\ t.trip_id = r.trip_id

\* C18: a failure of the ingest or of an index rebuild in a maintenance window
\* leaves the maintenance scheduler running: the process is never down as the
\* result of a failed sync_and_index that keep_maintained called.
C18_SchedulerSurvivesFailure ==
    ~(/\ pc = "down"
      /\ sync.caller = "maint"
      /\ sync.result \in {"err", "index_err"})

\* the service_ids present in Calendar and in CalendarDate
CalendarServiceIds ==
    {r.key : r \in tables["calendar.txt"]}
        \cup {r.key[1] : r \in tables["calendar_dates.txt"]}

\* C20: when sync() returns after it ingested a new archive, the service_ids
\* of table Service are those present in Calendar or CalendarDate.
C20_ServiceIsUnionOfCalendars ==
    (pc = "sync_ret" /\ sync.result = "ok" /\ sync.count > 0)
        => service = CalendarServiceIds

----------------------------------------------------------------------------
(* The serving process: monitor_firehose (gtfs/realtime/mod.rs) applying trip
   updates, and the admin endpoint that rebuilds the stop-time index *)

\* the clocks at which the serving process is observed
NowValues == {StartNow, StartNow + 3 * MsPerDay, StartNow + 6 * MsPerDay}

\* the archives whose ingest and rebuilds complete at startup
ServedArchives == {"base", "renamed"}

\* the store once main has completed sync_and_index on an empty store, for
\* one of the given archives
InitServingOf(archives, clocks, seeds) ==
    \E a \in archives, clock \in clocks, seed \in seeds :
      LET tb == [f \in FileSet |-> InsertFromCsv({}, Archive(a)[f], 1, f)]
          built == do_build_stop_time_index(tb, all_services(tb), clock)
      IN  /\ now = clock
          /\ imports = {[NewImportRow(1, clock, Some("Mon"))
                            EXCEPT !.file_last_modified = Some("Mon")]}
          /\ tables = tb
          /\ service = all_services(tb)
          /\ stopIndex = do_build_stop_index(tb).rows
          /\ tripRun = built.runs
          /\ stopTimeIndex = built.sti
          /\ maintenanceTime =
                {[id |-> 1, minute_of_day |-> MinuteOfDay(min_period(built.counts, seed))]}
          /\ vehicle = {}
          /\ alerts = EmptyAlerts
          /\ pc = "sleep"
          /\ sync = SyncIdle
          /\ rt = RtIdle
          /\ feed = FeedIdle
          /\ admin = AdminIdle
          /\ hist = NoHistory
          /\ tx = NoneV
          /\ pre = [tables |-> tb, imports |-> {}, service |-> {}]
          /\ last = [NoOp EXCEPT !.op = "index_stop_times", !.result = "ok"]
          /\ idx = [stop |-> 1, stop_time |-> 1, dates |-> built.dates]

InitServing(clocks, seeds) == InitServingOf(ServedArchives, clocks, seeds)

InitRT == InitServing(NowValues, HashSeeds)

RtFrame == <<now, StoreVars, stopIndex, maintenanceTime, alerts, admin, pc, sync, tx,
             pre, idx>>

\* POST /management/gtfs/index-stoptimes: build_stop_time_index in its own
\* transaction; the store admits one writer, so it runs between two batches
IndexStopTimes ==
    /\ pc = "sleep"
    /\ rt.pc = "idle"
    /\ LET r == do_build_stop_time_index(tables, service, now)
       IN  /\ \E seed \in HashSeeds :
                LET after == StopTimeIndexRebuilt(r, seed)
                IN  /\ tripRun' = after.tripRun
                    /\ stopTimeIndex' = after.stopTimeIndex
                    /\ maintenanceTime' = after.maintenanceTime
           /\ IF r.err
              THEN /\ last' = [NoOp EXCEPT !.op = "index_stop_times", !.result = "err"]
                   /\ idx' = idx
              ELSE /\ idx' = [idx EXCEPT !.stop_time = LatestIngest,
                                        !.dates = r.dates]
                   /\ last' = [NoOp EXCEPT !.op = "index_stop_times", !.result = "ok",
                                           !.stage = "endpoint"]
    /\ UNCHANGED <<now, StoreVars, stopIndex, vehicle, rt, ServingVars, pc, sync, tx,
                   pre>>

\* monitor_firehose: `let last_update_time = Utc.timestamp_opt(0, 0).unwrap()`,
\* a binding the loop never assigns again
last_update_time == UnixEpoch

\* monitor_firehose: a feed with this header timestamp has arrived and
\* `updates.header.timestamp <= Some(last_update_time)`; sleep and continue
RtSkip(timestamp) ==
    /\ pc = "sleep"
    /\ rt.pc = "idle"
    /\ OptionLe(timestamp, Some(last_update_time))
    /\ UNCHANGED vars

\* monitor_firehose: a feed of len entities has arrived and passed that test;
\* let tx = ctx.db.begin().await?
RtBegin(timestamp, len) ==
    /\ pc = "sleep"
    /\ rt.pc = "idle"
    /\ rt.n < MaxUpdates
    /\ len <= MaxUpdates - rt.n
    /\ ~OptionLe(timestamp, Some(last_update_time))
    /\ rt' = [rt EXCEPT !.pc = "batch"]
    /\ feed' = [timestamp |-> timestamp, left |-> len]
    /\ last' = [NoOp EXCEPT !.op = "rt_begin"]
    /\ UNCHANGED <<RtFrame, tripRun, stopTimeIndex, vehicle, hist>>

\* `for entity in updates.entity`: the loop takes the next entity of the feed
RtDispatch ==
    /\ rt.pc = "batch"
    /\ feed.left > 0
    /\ feed' = [feed EXCEPT !.left = @ - 1]

\* vehicle::ActiveModel { vehicle_id: Set(..), ..Default::default() } as the
\* store holds it once inserted: a column that is NotSet is NULL
NewVehicle(vehicle_id) ==
    [vehicle_id |-> vehicle_id, label |-> NoneV, license_plate |-> NoneV,
     latitude |-> NoneV, longitude |-> NoneV, bearing |-> NoneV, speed |-> NoneV,
     timestamp |-> 0]

\* a dispatch that takes an Added trip for one of the schedule
FindsTripRun_or_added(sr) ==
    sr \in {Some(Scheduled), Some(Canceled), Some(Deleted), Some(Added)}

\* process_trip_update, `match sr`: the arm that calls find_trip_run
FindsTripRun(sr) == sr \in {Some(Scheduled), Some(Canceled), Some(Deleted)}

\* history at the end of the step that enters the handler of an entity
Handling(kind, input, result) ==
    [hist EXCEPT !.entity = kind, !.input = input, !.run = NoneV, !.before = RtStore,
                 !.errors = IF result = "err" THEN @ + 1 ELSE @, !.error = "none"]

\* a variant of the definition below that a slip in the code would produce
AfterHandler_propagates(n, result) ==
    IF result = "err" THEN [RtIdle EXCEPT !.n = n]
    ELSE [RtIdle EXCEPT !.pc = "batch", !.n = n]

\* match result { Ok(()) => {}, Err(e) => { log::error!(..); continue; } }:
\* after either result the loop goes on with the next entity
AfterHandler(n, result) == [RtIdle EXCEPT !.pc = "batch", !.n = n]

\* process_trip_update up to the loop over the stop-time updates: the trip
\* run is resolved and saved, the vehicle recorded, the run's stop times read
RtTripUpdate(u) ==
    /\ RtDispatch
    /\ LET sr == u.trip.schedule_relationship
           done(res, stage) ==
               /\ rt' = AfterHandler(rt.n + 1, res)
               /\ hist' = Handling("trip_update", Some(u), res)
               /\ last' = [NoOp EXCEPT !.op = "trip_update", !.result = res,
                                       !.stage = stage]
           \* from `trip_update.vehicle` on, with the run as saved so far
           proceed(runs, sti, id, stage) ==
               LET with_vehicle == u.vehicle # NoneV
                   runs1 == IF with_vehicle
                            THEN {IF r.id = id THEN [r EXCEPT !.vehicle_id = u.vehicle]
                                  ELSE r : r \in runs}
                            ELSE runs
                   updates == sorted_by_key(u.stop_time_update)
               IN  /\ tripRun' = runs1
                   /\ stopTimeIndex' = sti
                   /\ vehicle' =
                        IF with_vehicle /\ ~\E v \in vehicle : v.vehicle_id = The(u.vehicle)
                        THEN vehicle \cup {[NewVehicle(The(u.vehicle))
                                               EXCEPT !.timestamp = now]}
                        ELSE vehicle
                   /\ rt' = [pc |-> IF updates = <<>> THEN "batch" ELSE "target",
                             n |-> rt.n + 1,
                             trip_run_id |-> IF updates = <<>> THEN NoneV ELSE Some(id),
                             stop_times |-> IF updates = <<>> THEN {}
                                            ELSE {r \in sti : r.trip_run_id = id},
                             updates |-> updates,
                             target |-> NoneV]
                   /\ hist' = [Handling("trip_update", Some(u), "ok") EXCEPT
                                   !.run = Some(id)]
                   /\ last' = [NoOp EXCEPT !.op = "trip_update", !.result = "ok",
                                           !.stage = stage]
       IN  IF FindsTripRun(sr)
           THEN LET f == find_trip_run(tables, tripRun, now, u.trip)
                IN  IF f.err # "none"
                    THEN /\ rt' = AfterHandler(rt.n + 1, "err")
                         /\ hist' = [Handling("trip_update", Some(u), "err")
                                        EXCEPT !.error = f.err]
                         /\ last' = [NoOp EXCEPT !.op = "trip_update", !.result = "err",
                                                 !.stage = "find"]
                         /\ UNCHANGED <<tripRun, stopTimeIndex, vehicle>>
                    ELSE \E run \in f.found :
                           proceed({IF r.id = run.id
                                    THEN [r EXCEPT !.schedule_relationship = The(sr)]
                                    ELSE r : r \in tripRun},
                                   stopTimeIndex, run.id, "found")
           ELSE IF sr = Some(Duplicated)
           THEN \E query_ok \in BOOLEAN :
                  LET d == duplicate_trip_run(tables, tripRun, stopTimeIndex,
                                              u.trip, query_ok)
                  IN  IF d.err # "none"
                      THEN /\ done("err", "duplicate")
                           /\ tripRun' = d.runs
                           /\ stopTimeIndex' = d.sti
                           /\ vehicle' = vehicle
                      ELSE proceed(d.runs, d.sti, The(d.id),
                                   IF d.runs = tripRun THEN "dup_existing" ELSE "dup_new")
           ELSE /\ done("ignored", "none")
                /\ UNCHANGED <<tripRun, stopTimeIndex, vehicle>>
    /\ UNCHANGED RtFrame

\* for update in updates: let stop_time = match (update.stop_sequence,
\* update.stop_id) { .. }; the `?` ends the handler with the error
RtTarget ==
    /\ rt.pc = "target"
    /\ LET found == TargetStopTime(rt.stop_times, Head(rt.updates))
       IN  IF found = {}
           THEN /\ rt' = AfterHandler(rt.n, "err")
                /\ hist' = [hist EXCEPT !.errors = @ + 1]
                /\ last' = [NoOp EXCEPT !.op = "target", !.result = "err"]
           ELSE \E st \in found :
                  /\ rt' = [rt EXCEPT !.pc = "arrival", !.target = Some(st)]
                  /\ hist' = hist
                  /\ last' = [NoOp EXCEPT !.op = "target", !.result = "ok"]
    /\ UNCHANGED <<RtFrame, tripRun, stopTimeIndex, vehicle, feed>>

\* if let Some(arrival) = update.arrival { .. }
RtArrival ==
    /\ rt.pc = "arrival"
    /\ LET delay == DelayOrTime(Head(rt.updates).arrival,
                                The(rt.target).arrival_timestamp)
       IN  IF delay = NoneV
           THEN /\ stopTimeIndex' = stopTimeIndex
                /\ last' = [NoOp EXCEPT !.op = "arrival", !.result = "absent"]
           ELSE /\ stopTimeIndex' =
                      ArrivalDelayUpdate(stopTimeIndex, The(rt.trip_run_id),
                                         The(rt.target).stop_sequence, The(delay))
                /\ last' = [NoOp EXCEPT !.op = "arrival", !.result = "applied"]
    /\ rt' = [rt EXCEPT !.pc = "departure"]
    /\ UNCHANGED <<RtFrame, tripRun, vehicle, feed, hist>>

\* if let Some(departure) = update.departure { .. }, then the next update
RtDeparture ==
    /\ rt.pc = "departure"
    /\ LET delay == DelayOrTime(Head(rt.updates).departure,
                                The(The(rt.target).departure_timestamp))
       IN  IF delay = NoneV
           THEN /\ stopTimeIndex' = stopTimeIndex
                /\ last' = [NoOp EXCEPT !.op = "departure", !.result = "absent"]
           ELSE /\ stopTimeIndex' =
                      DepartureDelayUpdate(stopTimeIndex, The(rt.trip_run_id),
                                           The(rt.target).stop_sequence, The(delay))
                /\ last' = [NoOp EXCEPT !.op = "departure", !.result = "applied"]
    /\ rt' = IF Tail(rt.updates) = <<>> THEN AfterHandler(rt.n, "ok")
             ELSE [rt EXCEPT !.pc = "target", !.updates = Tail(rt.updates),
                             !.target = NoneV]
    /\ UNCHANGED <<RtFrame, tripRun, vehicle, feed, hist>>

\* the loop over the entities is over: tx.commit().await?
RtCommit ==
    /\ rt.pc = "batch"
    /\ feed.left = 0
    /\ rt' = [rt EXCEPT !.pc = "idle"]
    /\ hist' = [NoHistory EXCEPT !.applied = feed.timestamp, !.ticks = hist.ticks,
                                 !.alert = hist.alert]
    /\ last' = [NoOp EXCEPT !.op = "rt_commit"]
    /\ UNCHANGED <<RtFrame, tripRun, stopTimeIndex, vehicle, feed>>

\* the trip run ids find_trip_run may return for the informed entities, one
\* choice per entity that names a trip
InformedRuns(informed) ==
    LET found(i) == IF informed[i].trip = NoneV THEN {NoneV}
                    ELSE {Some(r.id) :
                            r \in find_trip_run(tables, tripRun, now,
                                                The(informed[i].trip)).found}
    IN  {c \in [1 .. Len(informed) -> {NoneV} \cup {Some(r.id) : r \in tripRun}] :
            \A i \in 1 .. Len(informed) : c[i] \in found(i)}

\* process_alert on the next entity of the feed: the rows of the alert are
\* replaced inside a savepoint; an informed entity whose trip find_trip_run
\* cannot resolve ends the handler with the error
RtAlert(entity) ==
    /\ RtDispatch
    /\ LET informed == entity.informed_entity
           failed == \E i \in 1 .. Len(informed) :
                        IF informed[i].trip = NoneV THEN FALSE
                        ELSE find_trip_run(tables, tripRun, now,
                                           The(informed[i].trip)).err # "none"
           result == IF failed THEN "err" ELSE "ok"
       IN  /\ IF failed
              THEN alerts' = SavepointDropped(alerts,
                                 process_alert(alerts,
                                     [entity EXCEPT !.informed_entity = <<>>,
                                                    !.active_period = <<>>],
                                     now, <<>>))
              ELSE \E trip_run_ids \in InformedRuns(informed) :
                      alerts' = process_alert(alerts, entity, now, trip_run_ids)
           /\ rt' = AfterHandler(rt.n + 1, result)
           /\ hist' = [Handling("alert", Some(entity), result) EXCEPT
                           !.alert = IF failed THEN @ ELSE Some(entity)]
           /\ last' = [NoOp EXCEPT !.op = "alert", !.result = result]
    /\ UNCHANGED <<now, StoreVars, stopIndex, tripRun, stopTimeIndex, maintenanceTime,
                   vehicle, admin, pc, sync, tx, pre, idx>>

\* the clock steps the model takes while both loops sleep
TickSteps == {1, MsPerDay}

\* time passes
Tick(d) ==
    /\ pc = "sleep"
    /\ rt.pc = "idle"
    /\ hist.ticks < MaxTicks
    /\ now' = now + d
    /\ hist' = [hist EXCEPT !.ticks = @ + 1]
    /\ last' = [NoOp EXCEPT !.op = "tick"]
    /\ UNCHANGED <<StoreVars, stopIndex, tripRun, stopTimeIndex, maintenanceTime,
                   vehicle, alerts, rt, feed, admin, pc, sync, tx, pre, idx>>

\* the server answers with the Last-Modified of the archive ingested at startup
UnchangedArchive == Some("Mon")

\* the serving process handling alerts: monitor_firehose and, at the
\* maintenance window, sync_and_index on an unchanged archive followed by the
\* alert cleanup
NextAlert ==
    \/ \E h \in FeedHeaders : RtSkip(h)
    \/ \E h \in FeedHeaders, len \in 0 .. MaxUpdates : RtBegin(h, len)
    \/ \E entity \in AlertEntities : RtAlert(entity)
    \/ RtCommit
    \/ \E d \in TickSteps : Tick(d)
    \/ SyncEnter
    \/ \E r \in ServerResponses :
          r.last_modified = UnchangedArchive /\ SyncFetch(r.last_modified, r.zip)
    \/ SyncReturn
    \/ MaintenanceCleanup

\* the maintenance minute plays no part in it: one iteration order is taken,
\* and the clock steps are those of Tick
InitAlert == InitServing({StartNow}, {0})

SpecAlert == InitAlert /\ [][NextAlert]_vars

\* the bulk tasks the admin endpoints start: Sync::sync, build_stop_index and
\* build_stop_time_index
AdminTasks == {"sync", "index_stops", "index_stop_times"}

\* where the maintenance loop is inside sync_and_index
BulkPcs == {"sync_fetch", "sync_new_import", "file_cleanup", "file_insert",
            "file_commit", "sync_service", "sync_save", "sync_ret", "stop_index",
            "stop_time_index"}

\* the bulk tasks in progress: those of the admin requests and the one of
\* the maintenance loop
RunningBulkTasks ==
    Cardinality({r \in Requests : admin[r] # "idle"})
        + (IF pc \in BulkPcs THEN 1 ELSE 0)

AdminFrame == <<now, StoreVars, vehicle, alerts, rt, feed, hist, pc, sync, tx, pre>>

\* POST /management/gtfs/sync, /index-stops or /index-stoptimes arrives: the
\* handler calls the task at once, whatever else is in progress
AdminRequest(r, task) ==
    /\ pc \notin {"boot", "down"}
    /\ admin[r] = "idle"
    /\ admin' = [admin EXCEPT ![r] = task]
    /\ UNCHANGED <<AdminFrame, stopIndex, tripRun, stopTimeIndex, maintenanceTime,
                   idx, last>>

\* sync_gtfs: Sync::sync returns; the server answers with the Last-Modified of
\* the last import, so there is nothing to ingest and new_records is 0
AdminSync(r) ==
    /\ admin[r] = "sync"
    /\ \E i \in get_last_import :
          NotModified(i.file_last_modified, UnchangedArchive)
    /\ admin' = [admin EXCEPT ![r] = "idle"]
    /\ last' = [NoOp EXCEPT !.op = "sync", !.result = "no_change",
                            !.last_modified = UnchangedArchive, !.stage = "endpoint"]
    /\ UNCHANGED <<AdminFrame, stopIndex, tripRun, stopTimeIndex, maintenanceTime,
                   idx>>

\* index_stops: build_stop_index returns, its transaction committed
AdminIndexStops(r) ==
    /\ admin[r] = "index_stops"
    /\ rt.pc = "idle"
    /\ LET built == do_build_stop_index(tables)
       IN  IF built.err
           THEN /\ UNCHANGED <<stopIndex, idx>>
                /\ last' = [NoOp EXCEPT !.op = "index_stops", !.result = "err"]
           ELSE /\ stopIndex' = built.rows
                /\ idx' = [idx EXCEPT !.stop = LatestIngest]
                /\ last' = [NoOp EXCEPT !.op = "index_stops", !.result = "ok",
                                        !.stage = "endpoint"]
    /\ admin' = [admin EXCEPT ![r] = "idle"]
    /\ UNCHANGED <<AdminFrame, tripRun, stopTimeIndex, maintenanceTime>>

\* index_stop_times: build_stop_time_index returns
AdminIndexStopTimes(r) ==
    /\ admin[r] = "index_stop_times"
    /\ rt.pc = "idle"
    /\ LET built == do_build_stop_time_index(tables, service, now)
       IN  /\ \E seed \in HashSeeds :
                LET after == StopTimeIndexRebuilt(built, seed)
                IN  /\ tripRun' = after.tripRun
                    /\ stopTimeIndex' = after.stopTimeIndex
                    /\ maintenanceTime' = after.maintenanceTime
           /\ IF built.err
              THEN /\ last' = [NoOp EXCEPT !.op = "index_stop_times", !.result = "err"]
                   /\ idx' = idx
              ELSE /\ idx' = [idx EXCEPT !.stop_time = LatestIngest,
                                        !.dates = built.dates]
                   /\ last' = [NoOp EXCEPT !.op = "index_stop_times", !.result = "ok",
                                           !.stage = "endpoint"]
    /\ admin' = [admin EXCEPT ![r] = "idle"]
    /\ UNCHANGED <<AdminFrame, stopIndex>>

\* the serving process with its admin endpoints and the maintenance loop, the
\* server's archive being the one ingested at startup
NextAdmin ==
    \/ \E r \in Requests, task \in AdminTasks : AdminRequest(r, task)
    \/ \E r \in Requests : AdminSync(r)
    \/ \E r \in Requests : AdminIndexStops(r)
    \/ \E r \in Requests : AdminIndexStopTimes(r)
    \/ SyncEnter
    \/ \E r \in ServerResponses :
          r.last_modified = UnchangedArchive /\ SyncFetch(r.last_modified, r.zip)
    \/ SyncReturn
    \/ MaintenanceCleanup

SpecAdmin == InitRT /\ [][NextAdmin]_vars

\* C17: at no time are two bulk tasks (static ingest, stop index rebuild,
\* stop-time index rebuild) in progress, whether started by the maintenance
\* scheduler or by the admin endpoints.
C17_OneBulkTaskAtATime == RunningBulkTasks <= 1

NextRT ==
    \/ IndexStopTimes
    \/ \E h \in FeedHeaders : RtSkip(h)
    \/ \E h \in FeedHeaders, len \in 0 .. MaxUpdates : RtBegin(h, len)
    \/ \E u \in TripUpdates : RtTripUpdate(u)
    \/ RtTarget
    \/ RtArrival
    \/ RtDeparture
    \/ RtCommit

SpecRT == InitRT /\ [][NextRT]_vars

----------------------------------------------------------------------------
(* Stop-time index and trip updates: properties *)

\* a service runs on day d: its calendar row covers d on d's weekday and no
\* exception removes it, or an exception adds it
ServiceActive(tb, service_id, d) ==
    LET exceptions == {x.val.exception_type :
                          x \in Lookup(tb["calendar_dates.txt"],
                                       <<service_id, FormatDate(d)>>)}
        regular == \E c \in Lookup(tb["calendar.txt"], service_id) :
                      /\ c.val.start_date <= FormatDate(d)
                      /\ FormatDate(d) <= c.val.end_date
                      /\ Weekday(d) \in c.val.days
    IN  (regular /\ 2 \notin exceptions) \/ 1 \in exceptions

\* the service dates a rebuild at the current clock indexes
IndexedWindow ==
    LET today == now \div MsPerDay
        last_dates == {d \in Days :
                          Some(FormatDate(d)) = prepare_last_calendar_date(tables)}
    IN  {d \in Days : /\ today - 1 <= d
                      /\ d < today - 1 + MAX_DAYS
                      /\ \E l \in last_dates : d <= l}

\* the StopTimeIndex rows of a trip for service date d
RowsFor(trip_id, d) ==
    {r \in stopTimeIndex :
        /\ r.trip_id = trip_id
        /\ \E run \in tripRun : run.id = r.trip_run_id /\ run.start_date = FormatDate(d)}

RebuildSucceeded == last.op = "index_stop_times" /\ last.result = "ok"

\* C7: after a successful stop-time index rebuild, for every service date D
\* of the indexed window and every trip: when the trip's service is active on
\* D, StopTimeIndex holds exactly one row for D per stop time (trip_id,
\* stop_sequence) of the trip, timed at D's occurrence of it, and no other row
\* of the trip for D; when the service is not active on D, it holds no row of
\* the trip for D.
C7_IndexMatchesActiveServices ==
    RebuildSucceeded =>
        \A d \in IndexedWindow : \A t \in tables["trips.txt"] :
            LET stop_times == {st \in tables["stop_times.txt"] : st.key[1] = t.key}
            IN  IF ServiceActive(tables, t.val.service_id, d)
                THEN /\ \A st \in stop_times :
                          /\ Cardinality({r \in RowsFor(t.key, d) :
                                             r.stop_sequence = st.key[2]}) = 1
                          /\ \A r \in RowsFor(t.key, d) :
                                r.stop_sequence = st.key[2] =>
                                  Some(r.arrival_timestamp) =
                                    parse_time(d, st.val.arrival_time,
                                               The(TimezoneOf(tables, t)))
                     /\ \A r \in RowsFor(t.key, d) :
                          \E st \in stop_times : st.key[2] = r.stop_sequence
                ELSE RowsFor(t.key, d) = {}

\* C7 witness: a rebuild started at the endpoint, after trip updates had been
\* applied, has succeeded over a window in which one trip runs
\* only by an added exception, another is removed by an exception on a day its
\* calendar covers, and a trip is indexed on two days
C7_Witness ==
    /\ RebuildSucceeded
    /\ last.stage = "endpoint"
    /\ rt.n > 0
    /\ \E d \in IndexedWindow : \E t \in tables["trips.txt"] :
          /\ \E x \in Lookup(tables["calendar_dates.txt"],
                             <<t.val.service_id, FormatDate(d)>>) :
                x.val.exception_type = 1
          /\ RowsFor(t.key, d) # {}
    /\ \E d \in IndexedWindow : \E t \in tables["trips.txt"] :
          /\ \E x \in Lookup(tables["calendar_dates.txt"],
                             <<t.val.service_id, FormatDate(d)>>) :
                x.val.exception_type = 2
          /\ RowsFor(t.key, d) = {}
    /\ \E d1 \in IndexedWindow, d2 \in IndexedWindow : \E t \in tables["trips.txt"] :
          d1 # d2 /\ RowsFor(t.key, d1) # {} /\ RowsFor(t.key, d2) # {}

\* C8: in every state reached by stop-time index rebuilds and trip updates, no
\* two TripRun rows share (trip_id, start_timestamp).
C8_TripRunKeyUnique ==
    \A r1 \in tripRun, r2 \in tripRun :
        (r1.trip_id = r2.trip_id /\ r1.start_timestamp = r2.start_timestamp)
            => r1 = r2

\* C8 witness: a DUPLICATED update has just been resolved to the run that an
\* earlier DUPLICATED update for the same trip and start time had inserted
C8_Witness ==
    /\ last.op = "trip_update" /\ last.stage = "dup_existing"
    /\ rt.n = 2
    /\ \E r \in tripRun :
          /\ r.schedule_relationship = Duplicated
          /\ rt.trip_run_id = Some(r.id)
    /\ \E r \in tripRun : r.schedule_relationship # Duplicated

\* the stop sequence k an update is applied at
UpdateSequence ==
    IF Head(rt.updates).stop_sequence # NoneV
    THEN The(Head(rt.updates).stop_sequence)
    ELSE The(rt.target).stop_sequence

\* C9: the arrival delay d (seconds) of a stop-time update applied at stop
\* sequence k of a TripRun sets updated_arrival_timestamp = arrival_timestamp
\* + 1000 * d on every StopTimeIndex row of that run with stop_sequence >= k
\* and changes no row with stop_sequence < k and no row of another run.
C9_ArrivalDelayFromTarget ==
    [][ (/\ rt.pc = "arrival"
         /\ rt'.pc = "departure"
         /\ DelayOf(Head(rt.updates).arrival) # NoneV)
        => LET d == The(DelayOf(Head(rt.updates).arrival))
               k == UpdateSequence
               run == The(rt.trip_run_id)
           IN  /\ \A r \in stopTimeIndex :
                    IF r.trip_run_id = run /\ r.stop_sequence >= k
                    THEN [r EXCEPT !.updated_arrival_timestamp =
                                       Some(r.arrival_timestamp + 1000 * d)]
                            \in stopTimeIndex'
                    ELSE r \in stopTimeIndex'
               /\ Cardinality(stopTimeIndex') = Cardinality(stopTimeIndex)
               /\ UNCHANGED tripRun ]_vars

\* C9 witness: an arrival delay has been applied at a sequence k > 1 of a run
\* that has a later stop too, while another run has rows
C9_Witness ==
    /\ last.op = "arrival" /\ last.result = "applied"
    /\ rt.pc = "departure"
    /\ UpdateSequence > 1
    /\ \E r \in stopTimeIndex :
          /\ r.trip_run_id = The(rt.trip_run_id)
          /\ r.stop_sequence < UpdateSequence
          /\ r.updated_arrival_timestamp = NoneV
    /\ \E r \in stopTimeIndex :
          /\ r.trip_run_id = The(rt.trip_run_id)
          /\ r.stop_sequence > UpdateSequence
          /\ r.updated_arrival_timestamp # NoneV
    /\ \E r \in stopTimeIndex : r.trip_run_id # The(rt.trip_run_id)

\* C10: the departure delay d (seconds) of a stop-time update applied at stop
\* sequence k of a TripRun sets updated_arrival_timestamp = arrival_timestamp
\* + 1000 * d on exactly the rows of that run with stop_sequence > k; the row
\* at k, the earlier rows and the rows of other runs are as before.
C10_DepartureDelayAfterTarget ==
    [][ (/\ rt.pc = "departure"
         /\ rt'.pc # "departure"
         /\ DelayOf(Head(rt.updates).departure) # NoneV)
        => LET d == The(DelayOf(Head(rt.updates).departure))
               k == UpdateSequence
               run == The(rt.trip_run_id)
           IN  stopTimeIndex' =
                  {r \in stopTimeIndex : ~(r.trip_run_id = run /\ r.stop_sequence > k)}
                  \cup
                  {[r EXCEPT !.updated_arrival_timestamp =
                                 Some(r.arrival_timestamp + 1000 * d)] :
                     r \in {q \in stopTimeIndex :
                               q.trip_run_id = run /\ q.stop_sequence > k}} ]_vars

\* C10 witness: a departure delay has just been applied at a sequence whose
\* row carries the arrival delay of the same update, different from the
\* departure delay the later rows now carry
C10_Witness ==
    /\ last.op = "departure" /\ last.result = "applied"
    /\ \E r1 \in stopTimeIndex, r2 \in stopTimeIndex :
          /\ r1.trip_run_id = r2.trip_run_id
          /\ r1.stop_sequence < r2.stop_sequence
          /\ r1.updated_arrival_timestamp = Some(r1.arrival_timestamp + 60000)
          /\ r2.updated_arrival_timestamp = Some(r2.arrival_timestamp + 90000)
    /\ \E r \in stopTimeIndex : r.updated_arrival_timestamp = NoneV

----------------------------------------------------------------------------
(* The realtime loop: properties *)

\* C11: a feed whose header timestamp is not later than that of the feed
\* applied last is skipped: whenever a batch is open, no feed has been
\* applied before or the open feed's timestamp is strictly later than the
\* timestamp of the feed applied last.
C11_StaleFeedSkipped ==
    rt.pc # "idle" =>
        IF hist.applied = NoneV THEN TRUE
        ELSE ~OptionLe(feed.timestamp, hist.applied)

\* C12: an entity whose handler returns an error contributes no write: when
\* the handler of a trip update has just ended with an error, the tables the
\* handlers write are as they were when the handler was entered.
C12_FailedEntityWritesNothing ==
    (rt.pc = "batch" /\ last.result = "err" /\ last.op \in {"trip_update", "target"})
        => RtStore = hist.before

\* the steps in which the handler of an entity returns Err
HandlerOps == {"trip_update", "target", "alert"}

PeriodsOf(al, a) == {p \in al.period : Some(p.alert_id) = a.alert_id}

\* C14: immediately after cleanup_alerts no AlertActivePeriod row ends before
\* now, and every Alert row left has an AlertActivePeriod row that ends at now
\* or later.
C14_AlertCleanupLaw ==
    last.op = "cleanup" =>
        /\ \A p \in alerts.period : p.end_timestamp >= now
        /\ \A a \in alerts.alert :
              \E p \in PeriodsOf(alerts, a) : p.end_timestamp >= now

\* C14 witness: a cleanup has left an alert with a period still to end, and
\* has deleted another alert, whose informed entity names an alert that is no
\* longer there
C14_Witness ==
    /\ last.op = "cleanup"
    /\ \E a \in alerts.alert : \E p \in PeriodsOf(alerts, a) : p.end_timestamp > now
    /\ \E i \in alerts.informed : \A a \in alerts.alert : a.alert_id # i.alert_id

\* C15: process_alert at time T stores one AlertActivePeriod row per active
\* period of the entity, with end_timestamp T + 86,400,000 where the period
\* has no end and start_timestamp 0 where it has no start; and a cleanup at
\* time t keeps an alert whose only period ends at e exactly when t <= e, so
\* that an alert with one such period is kept by the cleanups up to
\* T + 86,400,000 and deleted by the first one after.
C15_DefaultActivePeriod ==
    [][ /\ (last'.op = "alert" /\ last'.result = "ok" /\ feed'.left = feed.left - 1)
            => LET entity == The(hist'.input)
                   stored == alerts'.period \ alerts.period
               IN  /\ Cardinality(stored) = Len(entity.active_period)
                   /\ \A p \in stored : p.alert_id = entity.id
                   /\ \A i \in 1 .. Len(entity.active_period) :
                         \E p \in stored :
                            /\ entity.active_period[i].end = NoneV
                                  => p.end_timestamp = now + 86400000
                            /\ entity.active_period[i].end # NoneV
                                  => p.end_timestamp # now + 86400000
                            /\ entity.active_period[i].start = NoneV
                                  => p.start_timestamp = FromUnixMs(0)
                            /\ entity.active_period[i].start # NoneV
                                  => p.start_timestamp # FromUnixMs(0)
        /\ (pc = "cleanup" /\ pc' = "sleep")
            => \A a \in alerts.alert :
                  Cardinality(PeriodsOf(alerts, a)) = 1
                     => \A p \in PeriodsOf(alerts, a) :
                           (a \in alerts'.alert) <=> (now <= p.end_timestamp) ]_vars

\* C15 witness: a cleanup exactly one day after an alert arrived with one
\* active period that had neither start nor end has kept the alert
C15_Witness ==
    /\ last.op = "cleanup"
    /\ \E a \in alerts.alert :
          /\ a.timestamp = Some(now - 86400000)
          /\ Cardinality(PeriodsOf(alerts, a)) = 1
          /\ \A p \in PeriodsOf(alerts, a) :
                p.end_timestamp = now /\ p.start_timestamp = FromUnixMs(0)

\* the handler that has just returned, or reached its loop over the stop-time
\* updates, was process_trip_update for a DUPLICATED trip whose source trip
\* has an agency and stop times and whose start date and time parse
DuplicatedHandled ==
    /\ last.op = "trip_update"
    /\ hist.entity = "trip_update"
    /\ hist.input # NoneV
    /\ LET td == The(hist.input).trip
       IN  /\ td.schedule_relationship = Some(Duplicated)
           /\ td.trip_id # NoneV /\ td.start_date # NoneV /\ td.start_time # NoneV
           /\ \E t \in Lookup(tables["trips.txt"], The(td.trip_id)) :
                 AgencyOfRoute(tables, t.val.route_id) # {}
           /\ \E st \in tables["stop_times.txt"] : st.key[1] = The(td.trip_id)

\* parseTime(start_date, start_time, agency tz) of the DUPLICATED descriptor
\* just handled, and the scheduled departure of a stop time on that date
DuplicatedTz ==
    LET t == The(Lookup(tables["trips.txt"], The(The(hist.input).trip.trip_id)))
        tz == The(AgencyOfRoute(tables, t.val.route_id)).val.agency_timezone
    IN  IF tz = NoneV THEN "UTC" ELSE The(tz)
DuplicatedDate == The(parse_date(The(The(hist.input).trip.start_date)))
DuplicatedStart ==
    The(parse_time(DuplicatedDate, The(The(hist.input).trip.start_time), DuplicatedTz))
DuplicatedSource ==
    {st \in tables["stop_times.txt"] : st.key[1] = The(The(hist.input).trip.trip_id)}
ScheduledDeparture(st) == The(parse_time(DuplicatedDate, st.val.departure_time, DuplicatedTz))

\* C21: a DUPLICATED trip update for a (trip_id, start_date, start_time) that
\* has no TripRun yet inserts one TripRun with schedule_relationship Duplicated
\* and start_timestamp = parseTime(start_date, start_time, agency tz), and one
\* StopTimeIndex row per StopTime of the source trip, with the same
\* stop_sequence and arrival_timestamp = the new start_timestamp + (the stop's
\* scheduled departure - the first stop's scheduled departure).
C21_DuplicatedInsertsRun ==
    (/\ DuplicatedHandled
     /\ ~TripRunKeyTaken(hist.before.tripRun, The(The(hist.input).trip.trip_id),
                         DuplicatedStart))
        => \E r \in tripRun \ hist.before.tripRun :
              /\ tripRun \ hist.before.tripRun = {r}
              /\ r.trip_id = The(The(hist.input).trip.trip_id)
              /\ r.start_timestamp = DuplicatedStart
              /\ r.schedule_relationship = Duplicated
              /\ \A st \in DuplicatedSource :
                    \E first \in DuplicatedSource :
                       /\ \A q \in DuplicatedSource : first.key[2] <= q.key[2]
                       /\ Cardinality({x \in stopTimeIndex :
                              /\ x.trip_run_id = r.id
                              /\ x.stop_sequence = st.key[2]}) = 1
                       /\ \A x \in stopTimeIndex :
                              (x.trip_run_id = r.id /\ x.stop_sequence = st.key[2])
                                 => x.arrival_timestamp =
                                      DuplicatedStart + (ScheduledDeparture(st)
                                                         - ScheduledDeparture(first))
              /\ Cardinality({x \in stopTimeIndex : x.trip_run_id = r.id})
                    = Cardinality(DuplicatedSource)

TripUpdateApplied ==
    /\ rt.pc = "batch"
    /\ last.op = "departure"
    /\ hist.entity = "trip_update"
    /\ hist.input # NoneV
    /\ hist.run # NoneV

\* the stop sequence the i-th stop-time update of hist.input targets in the
\* run: its stop_sequence, or that of the run's row with its stop_id
TargetSequence(i) ==
    LET update == The(hist.input).stop_time_update[i]
    IN  IF update.stop_sequence # NoneV THEN The(update.stop_sequence)
        ELSE Min({x.stop_sequence : x \in {q \in stopTimeIndex :
                    /\ q.trip_run_id = The(hist.run)
                    /\ q.stop_id = The(update.stop_id)}})

\* C26: after a trip update with several stop-time updates, each row of the
\* run carries the delay of the update that targets the greatest stop sequence
\* not above the row's own (its arrival delay at the targeted row, its
\* departure delay, if it has one, on the later rows), whatever the order of
\* the updates in the feed and whether they name a stop_sequence or a stop_id.
C26_NearestUpdateDetermines ==
    TripUpdateApplied =>
        LET updates == The(hist.input).stop_time_update
        IN  \A x \in stopTimeIndex : \A i \in 1 .. Len(updates) :
              (/\ x.trip_run_id = The(hist.run)
               /\ TargetSequence(i) <= x.stop_sequence
               /\ \A j \in 1 .. Len(updates) :
                     j # i => \/ TargetSequence(j) > x.stop_sequence
                              \/ TargetSequence(j) < TargetSequence(i))
                => LET arrival == DelayOf(updates[i].arrival)
                       departure == DelayOf(updates[i].departure)
                   IN  IF TargetSequence(i) < x.stop_sequence /\ departure # NoneV
                       THEN x.updated_arrival_timestamp =
                               Some(x.arrival_timestamp + 1000 * The(departure))
                       ELSE IF arrival # NoneV
                       THEN x.updated_arrival_timestamp =
                               Some(x.arrival_timestamp + 1000 * The(arrival))
                       ELSE TRUE

\* C27: an arrival event with an absolute time and no delay leaves the
\* targeted stop with updated_arrival_timestamp = that time in ms (the delay is
\* time - scheduled arrival, both in ms); with a delay present the delay is
\* applied.
C27_ArrivalTimeApplied ==
    (/\ rt.pc = "departure"
     /\ last.op = "arrival"
     /\ last.result = "applied")
        => LET arrival == The(Head(rt.updates).arrival)
               target == {x \in stopTimeIndex :
                            /\ x.trip_run_id = The(rt.trip_run_id)
                            /\ x.stop_sequence = The(rt.target).stop_sequence}
           IN  \A x \in target :
                  x.updated_arrival_timestamp =
                     IF arrival.delay # NoneV
                     THEN Some(x.arrival_timestamp + 1000 * The(arrival.delay))
                     ELSE Some((The(arrival.time) + UnixEpoch) * 1000)

\* C29: after an alert entity with id X has been processed successfully there
\* is exactly one Alert row with alert_id X, and the AlertInformedEntity and
\* AlertActivePeriod rows of X are those of the entity: one per informed
\* entity and one per active period, also when X was processed before.
C29_AlertRowsReplaced ==
    (last.op = "alert" /\ last.result = "ok")
        => LET entity == The(hist.input)
           IN  /\ Cardinality({a \in alerts.alert : a.alert_id = Some(entity.id)}) = 1
               /\ Cardinality({i \in alerts.informed : i.alert_id = Some(entity.id)})
                     = Len(entity.informed_entity)
               /\ Cardinality({p \in alerts.period : p.alert_id = entity.id})
                     = Len(entity.active_period)

\* the instant of a POSIX time of the feed (seconds) on the model's clock (ms)
FeedInstantMs(seconds) == (seconds + UnixEpoch) * 1000

\* C28: cleanup_alerts deletes an Alert only if all its active periods have
\* ended: after a cleanup, the alert stored last is still there if one of its
\* active periods has an end in the feed (POSIX seconds) that is later than
\* now (ms).
C28_FutureAlertSurvivesCleanup ==
    (last.op = "cleanup" /\ hist.alert # NoneV)
        => LET entity == The(hist.alert)
           IN  (\E i \in 1 .. Len(entity.active_period) :
                   /\ entity.active_period[i].end # NoneV
                   /\ FeedInstantMs(The(entity.active_period[i].end)) > now)
                 => \E a \in alerts.alert : a.alert_id = Some(entity.id)

\* the zero-or-more field as it arrives in the other of its two forms, when
\* it holds one object
OtherForm(many) == IF many.shape = "One" THEN Many(many.items) ELSE One(many.items[1])

\* C22: a zero-or-more field is processed the same whether it arrives as a
\* single object or as a one-element array holding that object; for the
\* translation list of an alert's header text: the header_text stored for an
\* alert whose translation list holds one translation is the one that would be
\* stored had the list arrived in the other form.
C22_OneOrArrayAlike ==
    (/\ last.op = "alert" /\ last.result = "ok"
     /\ The(hist.input).header_text # NoneV)
        => LET translation == The(The(The(hist.input).header_text).translation)
           IN  Len(IntoVec(translation)) = 1
                 => \A a \in alerts.alert :
                       a.alert_id = Some(The(hist.input).id)
                         => a.header_text =
                              HeaderText(Some(TranslatedString(
                                  Some(OtherForm(translation)))))

\* C19: whenever MaintenanceTime has content it has exactly one row, with
\* id 1 and a minute_of_day that is a multiple of 10 between 0 and 1430.
C19_MaintenanceTimeRow ==
    maintenanceTime # {} =>
        /\ Cardinality(maintenanceTime) = 1
        /\ \A m \in maintenanceTime :
              /\ m.id = 1
              /\ m.minute_of_day \in {10 * k : k \in 0 .. 143}

\* C19 witness: the endpoint has rebuilt the stop-time index over an existing
\* one, and the quiet period it chose is not the first of the day
C19_Witness ==
    /\ last.op = "index_stop_times"
    /\ last.result = "ok"
    /\ last.stage = "endpoint"
    /\ \E m \in maintenanceTime : m.minute_of_day > 0

----------------------------------------------------------------------------
(* The maintenance cycle: properties *)

\* Sync::sync has returned Ok(n) to sync_and_index called by keep_maintained
MaintSyncReturned == pc = "sync_ret" /\ sync.caller = "maint" /\ sync.result # "err"

\* C31: in a maintenance cycle the ingest comes first; the stop index rebuild
\* starts only from an ingest that returned more than 0 rows, and the
\* stop-time index rebuild only after the stop index rebuild; the alert
\* cleanup then runs, outside any other transaction, in every cycle whose
\* earlier steps did not fail, whether or not the ingest found new data.
C31_MaintenanceOrder ==
    [][/\ (pc' = "stop_index" /\ pc # "stop_index") =>
              (pc = "sync_ret" /\ sync.result # "err" /\ sync.count > 0)
       /\ (pc' = "stop_time_index" /\ pc # "stop_time_index") => pc = "stop_index"
       /\ (pc' = "cleanup" /\ pc # "cleanup") =>
              \/ MaintSyncReturned /\ sync.count = 0
              \/ pc = "stop_time_index" /\ sync.caller = "maint"
       /\ (MaintSyncReturned /\ sync.count = 0) => pc' \in {"sync_ret", "cleanup"}
       /\ (MaintSyncReturned /\ sync.count > 0) => pc' \in {"sync_ret", "stop_index"}
       /\ (pc = "stop_time_index" /\ sync.caller = "maint") =>
              pc' \in {"stop_time_index", "cleanup", "down"}
       /\ (pc = "cleanup" /\ pc' # "cleanup") =>
              \/ pc' = "down"
              \/ /\ pc' = "sleep"
                 /\ tx = NoneV
                 /\ alerts' = cleanup_alerts(alerts, now)]_vars

\* C31 witness: the cleanup has run in a maintenance cycle whose ingest found
\* no new data, over indexes an earlier ingest had rebuilt
C31_Witness ==
    /\ pc = "sleep"
    /\ last.op = "cleanup"
    /\ sync.caller = "maint"
    /\ sync.result # "err"
    /\ sync.count = 0
    /\ idx.stop_time > 0

MinutesPerDay == 1440

\* Utc::now().timestamp() % 86400 / 60, for a clock in milliseconds
current_minute(clock) == ((clock \div 1000) % 86400) \div 60

\* a scheduler that takes the window of the current minute
wait_time_same_minute(minute, maintenance_time) ==
    IF minute <= maintenance_time
    THEN maintenance_time - minute
    ELSE MinutesPerDay - minute + maintenance_time

\* keep_maintained: the minutes until the next maintenance window
wait_time(minute, maintenance_time) ==
    IF minute < maintenance_time
    THEN maintenance_time - minute
    ELSE MinutesPerDay - minute + maintenance_time

\* MaintenanceTime::find_by_id(1).one(&db)
StoredMaintenanceMinute == {m.minute_of_day : m \in {r \in maintenanceTime : r.id = 1}}

\* keep_maintained: one pass from the top of the loop to the call of
\* sync_and_index: read the maintenance minute, compute the wait, sleep for it
\* and enter Sync::sync
MaintenanceWindow ==
    /\ pc = "sleep"
    /\ rt.pc = "idle"
    /\ StoredMaintenanceMinute # {}
    /\ hist.ticks < MaxTicks
    /\ LET wait == wait_time(current_minute(now), The(StoredMaintenanceMinute))
       IN  /\ now' = now + wait * 60 * 1000
           /\ hist' = [hist EXCEPT !.ticks = @ + 1, !.wait = wait]
    /\ pc' = "sync_fetch"
    /\ sync' = [SyncIdle EXCEPT !.caller = "maint"]
    /\ pre' = Snapshot
    /\ last' = [NoOp EXCEPT !.op = "wait"]
    /\ UNCHANGED <<StoreVars, stopIndex, tripRun, stopTimeIndex, maintenanceTime,
                   vehicle, alerts, rt, feed, admin, tx, idx>>

\* the hasher states of the map of period counts: any period may come first
AllHashSeeds == 0 .. NumPeriods - 1

\* the serving process some whole minutes after startup, with the maintenance
\* minute the rebuild at startup chose under some hasher state
InitWait ==
    LET tb == [f \in FileSet |-> InsertFromCsv({}, Archive("base")[f], 1, f)]
        built == do_build_stop_time_index(tb, all_services(tb), StartNow)
    IN  /\ imports = {[NewImportRow(1, StartNow, Some("Mon"))
                          EXCEPT !.file_last_modified = Some("Mon")]}
        /\ tables = tb
        /\ service = all_services(tb)
        /\ stopIndex = do_build_stop_index(tb).rows
        /\ tripRun = built.runs
        /\ stopTimeIndex = built.sti
        /\ vehicle = {}
        /\ alerts = EmptyAlerts
        /\ pc = "sleep"
        /\ sync = SyncIdle
        /\ rt = RtIdle
        /\ feed = FeedIdle
        /\ admin = AdminIdle
        /\ hist = NoHistory
        /\ tx = NoneV
        /\ pre = [tables |-> tb, imports |-> {}, service |-> {}]
        /\ last = [NoOp EXCEPT !.op = "index_stop_times", !.result = "ok"]
        /\ idx = [stop |-> 1, stop_time |-> 1, dates |-> built.dates]
        /\ \E minute \in {MinuteOfDay(min_period(built.counts, seed)) :
                             seed \in AllHashSeeds} :
              maintenanceTime = {[id |-> 1, minute_of_day |-> minute]}
        /\ \E c \in 0 .. MinutesPerDay - 1 : now = StartNow + c * 60 * 1000

\* the maintenance loop of the serving process while the archive is unchanged
NextWait ==
    \/ MaintenanceWindow
    \/ \E r \in ServerResponses :
          r.last_modified = UnchangedArchive /\ SyncFetch(r.last_modified, r.zip)
    \/ SyncReturn
    \/ MaintenanceCleanup

SpecWait == InitWait /\ [][NextWait]_vars

\* C32: for every current UTC minute of day c and every maintenance minute M
\* the wait w that keep_maintained sleeps for satisfies 1 <= w <= 1440 and
\* (c + w) mod 1440 = M; when c = M it is a full 1440 minutes, never zero.
C32_WaitReachesWindow ==
    [][(pc = "sleep" /\ pc' = "sync_fetch") =>
          \A M \in StoredMaintenanceMinute :
              LET c == current_minute(now)
                  w == (now' - now) \div (60 * 1000)
              IN  /\ now' - now = w * 60 * 1000
                  /\ hist'.wait = w
                  /\ 1 <= w
                  /\ w <= 1440
                  /\ (c + w) % 1440 = M
                  /\ c = M => w = 1440]_vars

\* C32 witness: the loop has slept a full day because the window was the
\* current minute, in the cycle that follows a completed maintenance
C32_Witness ==
    /\ pc = "sync_fetch"
    /\ last.op = "wait"
    /\ hist.ticks = 2
    /\ hist.wait = 1440
    /\ StoredMaintenanceMinute = {current_minute(now)}

\* the rows of StopTimeIndex whose arrival falls in ten-minute period b of
\* the UTC day: arrival_time_millis % 86400000 / 600000
ArrivalsIn(b) ==
    Cardinality({r \in stopTimeIndex :
                    (r.arrival_timestamp % MsPerDay) \div MsPerPeriod = b})

\* C33: the minute_of_day a stop-time index rebuild writes is 10 times the
\* index of a ten-minute period whose count of arrivals, over all the rows
\* the rebuild inserted, is at most the count of each of the 144 periods.
C33_LeastLoadedPeriod ==
    RebuildSucceeded =>
        \E b \in 0 .. NumPeriods - 1 :
            /\ maintenanceTime = {[id |-> 1, minute_of_day |-> 10 * b]}
            /\ \A other \in 0 .. NumPeriods - 1 : ArrivalsIn(b) <= ArrivalsIn(other)

\* C33 witness: the endpoint has rebuilt the index, the periods the iteration
\* met first had arrivals, and the first empty one after them was chosen
C33_Witness ==
    /\ RebuildSucceeded
    /\ last.stage = "endpoint"
    /\ stopTimeIndex # {}
    /\ \E m \in maintenanceTime, seed \in HashSeeds, k \in 1 .. NumPeriods - 1 :
          /\ m.minute_of_day = 10 * IterationOrder(seed, k)
          /\ \A j \in 0 .. k - 1 : ArrivalsIn(IterationOrder(seed, j)) > 0

----------------------------------------------------------------------------
(* The window of the stop-time index: the serving process over days *)

\* feeds whose calendars end within the week or months ahead, and one with
\* service added by exceptions only
WindowArchives == {"base", "season", "extras"}

InitWindow == InitServingOf(WindowArchives, NowValues, HashSeeds)

\* the serving process as days pass and the endpoint rebuilds the index
NextWindow ==
    \/ IndexStopTimes
    \/ \E d \in TickSteps : Tick(d)

SpecWindow == InitWindow /\ [][NextWindow]_vars

\* the last date any Calendar row or CalendarDate row covers, as a day
LastCoveredDay ==
    Max({d \in Days :
            \/ \E c \in tables["calendar.txt"] : c.val.end_date = FormatDate(d)
            \/ \E x \in tables["calendar_dates.txt"] : x.key[2] = FormatDate(d)})

\* a trip that starts (has a stop_sequence 1 row) and whose service runs on d
TripStartsOn(d) ==
    \E t \in tables["trips.txt"] :
        /\ ServiceActive(tables, t.val.service_id, d)
        /\ \E st \in tables["stop_times.txt"] : st.key = <<t.key, 1>>

\* C34: a stop-time index rebuild indexes exactly the consecutive service
\* dates from (today - 1 day) to the earlier of the last covered calendar
\* date L and the 60th date of the run; when L is before (today - 1 day) no
\* date is indexed and the rebuild still commits, with TripRun and
\* StopTimeIndex empty.
C34_IndexedDates ==
    RebuildSucceeded =>
        LET first == (now \div MsPerDay) - 1
            until == Min({LastCoveredDay, first + 59})
        IN  /\ idx.dates = first .. until
            /\ {run.start_date : run \in tripRun} =
                  {FormatDate(d) : d \in {e \in first .. until : TripStartsOn(e)}}
            /\ \A r \in stopTimeIndex : \E run \in tripRun : run.id = r.trip_run_id
            /\ LastCoveredDay < first =>
                  /\ tripRun = {}
                  /\ stopTimeIndex = {}
                  /\ Cardinality(maintenanceTime) = 1

\* C34 witness: the endpoint has rebuilt the index of a feed whose calendar
\* reaches beyond the 60th date, and the loop stopped at that date
C34_Witness ==
    /\ RebuildSucceeded
    /\ last.stage = "endpoint"
    /\ LastCoveredDay > (now \div MsPerDay) - 1 + 59
    /\ Cardinality(idx.dates) = 60
    /\ tripRun # {}

\* C35: for a date D a rebuild loops over, a trip's stop times are indexed if
\* and only if its service's Calendar row covers D (start_date <= D <=
\* end_date, weekday flag of D set) and the service has no CalendarDate row
\* for D with exception_type 2, or the service has a CalendarDate row for D
\* with exception_type 1; the latter also when D is outside the Calendar
\* range, the weekday flag is 0 or the service has no Calendar row.
C35_IndexedIffRuns ==
    RebuildSucceeded =>
        \A d \in idx.dates : \A t \in tables["trips.txt"] :
            LET D == FormatDate(d)
                covered == \E c \in tables["calendar.txt"] :
                              /\ c.key = t.val.service_id
                              /\ c.val.start_date <= D
                              /\ D <= c.val.end_date
                              /\ Weekday(d) \in c.val.days
                exception(type) ==
                    \E x \in tables["calendar_dates.txt"] :
                        x.key = <<t.val.service_id, D>> /\ x.val.exception_type = type
                stop_times == {st \in tables["stop_times.txt"] : st.key[1] = t.key}
            IN  IF (covered /\ ~exception(2)) \/ exception(1)
                THEN \A st \in stop_times :
                        \E r \in RowsFor(t.key, d) : r.stop_sequence = st.key[2]
                ELSE RowsFor(t.key, d) = {}

\* a TripRun of the index for a trip and its service's calendar rows
RunOfService(run, calendar) ==
    \E t \in tables["trips.txt"] :
        /\ run.trip_id = t.key
        /\ calendar = {c \in tables["calendar.txt"] : c.key = t.val.service_id}

\* C35 witness: the endpoint has rebuilt an index in which one trip runs on a
\* date after its service's calendar has ended, one runs by a service that
\* has no calendar row, and a service is removed on a day its calendar covers
C35_Witness ==
    /\ RebuildSucceeded
    /\ last.stage = "endpoint"
    /\ \E run \in tripRun : RunOfService(run, {})
    /\ \E run \in tripRun : \E c \in tables["calendar.txt"] :
          RunOfService(run, {c}) /\ run.start_date > c.val.end_date
    /\ \E d \in idx.dates : \E x \in tables["calendar_dates.txt"] :
          /\ x.key[2] = FormatDate(d)
          /\ x.val.exception_type = 2
          /\ \E c \in tables["calendar.txt"] :
                /\ c.key = x.key[1]
                /\ c.val.start_date <= x.key[2]
                /\ x.key[2] <= c.val.end_date
                /\ Weekday(d) \in c.val.days

----------------------------------------------------------------------------
(* Trip updates and vehicles: further properties *)

\* the handler of a trip update has ended with the error of find_trip_run
FindTripRunFailed ==
    hist.entity = "trip_update" /\ last.stage = "find" /\ last.result = "err"

\* C36: find_trip_run fails with NotFound exactly when no TripRun satisfies
\* the constraints set on the descriptor or the route or agency timezone
\* cannot be resolved: a trip update that ends with the error of
\* find_trip_run ends with NotFound.
C36_FailureIsNotFound == FindTripRunFailed => hist.error = "NotFound"

\* the trip-level schedule relationships process_trip_update acts on
ImplementedRelationships == {Some(Scheduled), Some(Canceled), Some(Deleted), Some(Duplicated)}

\* the handler of a trip update with another relationship, or none, has ended
UnimplementedHandled ==
    /\ hist.entity = "trip_update"
    /\ last.op = "trip_update"
    /\ hist.input # NoneV
    /\ The(hist.input).trip.schedule_relationship \notin ImplementedRelationships

\* C37: a trip update whose trip-level schedule_relationship is Added,
\* Unscheduled, Replacement or absent changes nothing in the store: no
\* TripRun, Vehicle or StopTimeIndex row is created or modified, also when the
\* update carries a vehicle or stop-time updates, and the handler succeeds.
C37_UnimplementedIgnored ==
    UnimplementedHandled =>
        /\ RtStore = hist.before
        /\ last.result = "ignored"
        /\ hist.error = "none"
        /\ rt.pc = "batch"

\* C37 witness: an Added trip update that names a vehicle and carries a
\* stop-time update has been handled over an index that holds the trip
C37_Witness ==
    /\ UnimplementedHandled
    /\ The(hist.input).trip.schedule_relationship = Some(Added)
    /\ The(hist.input).vehicle # NoneV
    /\ The(hist.input).stop_time_update # <<>>
    /\ hist.errors = 0
    /\ \E r \in tripRun : Some(r.trip_id) = The(hist.input).trip.trip_id

----------------------------------------------------------------------------
(* Vehicle positions: gtfs/realtime/vehicle.rs *)

\* OptionMapSet::map_set on a column of an active model: Some(v) is
\* Set(Some(v)), which save writes; None is NotSet, which save leaves out of
\* the statement, so the column keeps the value the row has
map_set(column, value) == IF value = NoneV THEN column ELSE value

\* MaybeStringWrapped::into_inner: Val(v) is v, Str(s) is s.parse(); {} when
\* the text is not a number
into_inner(wrapped) ==
    IF wrapped.str THEN (IF wrapped.val = "north" THEN NoneV ELSE Some(wrapped.val))
    ELSE Some(wrapped.val)

Val(v) == [str |-> FALSE, val |-> v]
Str(s) == [str |-> TRUE, val |-> s]

Position(latitude, longitude, bearing, speed) ==
    [latitude |-> latitude, longitude |-> longitude, bearing |-> bearing,
     speed |-> speed]
VehicleDescriptor(id, label, license_plate) ==
    [id |-> id, label |-> label, license_plate |-> license_plate]
VehiclePosition(trip, vehicle_descriptor, position, timestamp) ==
    [trip |-> trip, vehicle |-> vehicle_descriptor, position |-> position,
     timestamp |-> timestamp]

\* the vehicle positions a feed may carry; coordinates are kept symbolically
VehiclePositions ==
    { VehiclePosition(NoneV, Some(VehicleDescriptor(Some("V1"), Some("Bus 1"), NoneV)),
                      Some(Position(10, 20, Some(Val(90)), Some(5))), NoneV),
      VehiclePosition(NoneV, Some(VehicleDescriptor(Some("V1"), NoneV, NoneV)),
                      NoneV, Some(StartNow - 1000)),
      VehiclePosition(Some(TripDescriptor(Some("T1"), NoneV, NoneV, Some(Scheduled))),
                      Some(VehicleDescriptor(Some("V2"), NoneV, Some("ABC123"))),
                      NoneV, NoneV),
      VehiclePosition(NoneV, Some(VehicleDescriptor(NoneV, Some("Bus 3"), NoneV)),
                      Some(Position(11, 21, NoneV, NoneV)), NoneV),
      VehiclePosition(NoneV, Some(VehicleDescriptor(Some("V1"), NoneV, NoneV)),
                      Some(Position(12, 22, Some(Str("north")), NoneV)), NoneV) }

\* process_vehicle on the next entity of the feed
RtVehicle(entity) ==
    /\ RtDispatch
    /\ LET timestamp == IF entity.timestamp = NoneV THEN now ELSE The(entity.timestamp)
           p == entity.position
           bearing == IF p = NoneV \/ The(p).bearing = NoneV THEN Some(NoneV)
                      ELSE {into_inner(The(The(p).bearing))} \ {NoneV}
           done(res, stage) ==
               /\ rt' = AfterHandler(rt.n + 1, res)
               /\ hist' = Handling("vehicle", Some(entity), res)
               /\ last' = [NoOp EXCEPT !.op = "vehicle", !.result = res, !.stage = stage]
       IN  IF bearing = NoneV
           THEN done("err", "bearing") /\ UNCHANGED <<vehicle, tripRun>>
           ELSE IF entity.vehicle = NoneV \/ The(entity.vehicle).id = NoneV
           THEN done("err", "descriptor") /\ UNCHANGED <<vehicle, tripRun>>
           ELSE
             LET vehicle_id == The(The(entity.vehicle).id)
                 found == {v \in vehicle : v.vehicle_id = vehicle_id}
                 db_vehicle == IF found = {} THEN NewVehicle(vehicle_id) ELSE The(found)
                 saved ==
                     [db_vehicle EXCEPT
                        !.label = map_set(@, The(entity.vehicle).label),
                        !.license_plate = map_set(@, The(entity.vehicle).license_plate),
                        !.latitude = map_set(@, IF p = NoneV THEN NoneV
                                                ELSE Some(The(p).latitude)),
                        !.longitude = map_set(@, IF p = NoneV THEN NoneV
                                                 ELSE Some(The(p).longitude)),
                        !.bearing = map_set(@, The(bearing)),
                        !.speed = map_set(@, IF p = NoneV THEN NoneV ELSE The(p).speed),
                        !.timestamp = timestamp]
             IN  /\ vehicle' = (vehicle \ found) \cup {saved}
                 /\ IF entity.trip = NoneV
                    THEN done("ok", "saved") /\ tripRun' = tripRun
                    ELSE LET f == find_trip_run(tables, tripRun, now, The(entity.trip))
                         IN  IF f.err # "none"
                             THEN done("err", "find") /\ tripRun' = tripRun
                             ELSE /\ done("ok", "trip")
                                  /\ \E run \in f.found :
                                        tripRun' =
                                          {IF r.id = run.id
                                           THEN [r EXCEPT !.vehicle_id = Some(vehicle_id)]
                                           ELSE r : r \in tripRun}
    /\ UNCHANGED <<RtFrame, stopTimeIndex>>

\* the serving process handling feeds of vehicle positions
NextVehicle ==
    \/ \E h \in FeedHeaders : RtSkip(h)
    \/ \E h \in FeedHeaders, len \in 0 .. MaxUpdates : RtBegin(h, len)
    \/ \E entity \in VehiclePositions : RtVehicle(entity)
    \/ RtCommit

InitVehicle == InitServing({StartNow}, {0})

SpecVehicle == InitVehicle /\ [][NextVehicle]_vars

\* process_vehicle has saved the Vehicle of an entity that carries no position
SavedWithoutPosition ==
    /\ hist.entity = "vehicle"
    /\ last.op = "vehicle"
    /\ last.result = "ok"
    /\ hist.input # NoneV
    /\ The(hist.input).position = NoneV

\* C38: after a vehicle-position entity that carries no position is
\* processed, the latitude, longitude, bearing and speed of the Vehicle row
\* are all null, for a Vehicle the entity created and for one that existed
\* with coordinates from an earlier entity.
C38_NoPositionClearsCoordinates ==
    SavedWithoutPosition =>
        \A v \in vehicle :
            Some(v.vehicle_id) = The(The(hist.input).vehicle).id =>
                /\ v.latitude = NoneV
                /\ v.longitude = NoneV
                /\ v.bearing = NoneV
                /\ v.speed = NoneV

----------------------------------------------------------------------------
(* Stop index and alert references: properties *)

\* build_stop_index has run for the stops of the last ingest: it has
\* committed, or it has failed and taken sync_and_index down with it
StopIndexRebuildRan ==
    \/ pc = "stop_time_index"
    \/ pc = "down" /\ sync.result = "index_err" /\ idx.stop # LatestIngest

\* C39: once a stop index rebuild has run, StopIndex holds exactly one row
\* for each Stop that has latitude and longitude and no row for any other
\* stop: a Stop without coordinates is skipped and does not make the rebuild
\* fail.
C39_StopsWithCoordinatesIndexed ==
    StopIndexRebuildRan =>
        /\ {r.stop_id : r \in stopIndex} =
              {s.key : s \in {q \in tables["stops.txt"] :
                                 q.val.stop_lat # NoneV /\ q.val.stop_lon # NoneV}}
        /\ \A r, q \in stopIndex : r.stop_id = q.stop_id => r = q
        /\ pc # "down"

\* the alerts of the feed that name a trip
TripAlertEntities ==
    {e \in AlertEntities :
        \E i \in 1 .. Len(e.informed_entity) : e.informed_entity[i].trip # NoneV}

\* the serving process handling alerts, with the stop-time index rebuilt
\* between two batches as well: alert processing, alert cleanup and rebuilds
\* in any order
NextRefs ==
    \/ \E h \in FeedHeaders : RtSkip(h)
    \/ \E h \in FeedHeaders, len \in 0 .. MaxUpdates : RtBegin(h, len)
    \/ \E entity \in TripAlertEntities : RtAlert(entity)
    \/ RtCommit
    \/ Tick(MsPerDay)
    \/ IndexStopTimes
    \/ SyncEnter
    \/ \E r \in ServerResponses :
          r.last_modified = UnchangedArchive /\ SyncFetch(r.last_modified, r.zip)
    \/ SyncReturn
    \/ MaintenanceCleanup

SpecRefs == InitAlert /\ [][NextRefs]_vars

\* the trip runs the stored alerts refer to
InformedTripRuns == {The(r.trip_run_id) : r \in {q \in alerts.informed : q.trip_run_id # NoneV}}

\* C40: in every reachable state every non-null AlertInformedEntity.trip_run_id
\* is the id of an existing TripRun row (and every AlertInformedEntity and
\* AlertActivePeriod row names an existing Alert), whatever sequence of alert
\* processing, alert cleanup and stop-time index rebuilds has run.  The first
\* half is the predicate below; a rebuild that deletes every TripRun row with
\* foreign keys off and inserts fewer runs than before breaks it.
C40_TripRunReferencesExist ==
    InformedTripRuns \subseteq {r.id : r \in tripRun}

====
